---- MODULE Spec2Model ----
(***************************************************************************)
(* State-machine model of the Axon blob store (synapse/axon.py): the blob  *)
(* engine (sizes / blobs tables, save, del, get), the UpLoad session, the  *)
(* per-digest hash-lock registry, the sequence / history indices and the   *)
(* metrics counters.  One task is one asyncio task; one action is what a   *)
(* task executes between two suspension points of the event loop.          *)
(***************************************************************************)
EXTENDS Integers, Sequences, FiniteSets, TLC

\* ---------------------------------------------------------------- bounds
NumTasks == 2
NumBytes == 2
MaxLen == 3
MaxOps == 2
MaxTime == 1
MaxLimit == 1
MaxSeqOps == 3
MaxList == 3
MaxUpOps == 4
MaxGetOps == 3

\* CHUNK_SIZE of axon.py, scaled from 16 MiB down to 2 bytes
CHUNK_SIZE == 2

Tasks == 1..NumTasks
Bytes == 1..NumBytes
\* the byte strings the callers store: one of each length up to MaxLen,
\* neighbouring bytes differing so that chunk order shows
Pattern(n) == [i \in 1..n |-> (i % NumBytes) + 1]
Contents == {Pattern(n) : n \in 0..MaxLen}

\* Python's None where bytes are expected, and where an int is expected
None == <<-1>>
NoneInt == -1
NoLimit == NoneInt
NoItem == 0
Limits == {NoLimit} \cup (1..MaxLimit)

Min(a, b) == IF a < b THEN a ELSE b
Max(a, b) == IF a > b THEN a ELSE b

\* ------------------------------------------------------------- hashlib
\* hashlib.sha256(): the running state is the bijective base-(NumBytes+1)
\* numeral of the bytes fed so far (collision free, fed incrementally)
Sha256New == 0

RECURSIVE Sha256Update(_, _)
Sha256Update(h, byts) ==
    IF byts = <<>> THEN h
    ELSE Sha256Update(h * (NumBytes + 1) + Head(byts), Tail(byts))

Sha256(byts) == Sha256Update(Sha256New, byts)

Digests == {Sha256(b) : b \in Contents}

\* ------------------------------------------------- int <-> 8 bytes, big
\* int.to_bytes(k, 'big')
RECURSIVE ToBytes(_, _)
ToBytes(n, k) == IF k = 0 THEN <<>> ELSE Append(ToBytes(n \div 256, k - 1), n % 256)

ToBytes8(n) == ToBytes(n, 8)

RECURSIVE FromBytes(_)
FromBytes(b) ==
    IF b = <<>> THEN 0
    ELSE FromBytes(SubSeq(b, 1, Len(b) - 1)) * 256 + b[Len(b)]

\* ------------------------------------------------------------ lmdb slab
SlabGet(db, k) == IF k \in DOMAIN db THEN db[k] ELSE None
SlabPut(db, k, v) == [x \in DOMAIN db \cup {k} |-> IF x = k THEN v ELSE db[x]]
SlabDel(db, k) == [x \in DOMAIN db \ {k} |-> db[x]]

\* BlobKey with the ordinal left out of the key
BlobKeyFlat(sha256, i) == <<sha256, 0>>

\* lkey = sha256 + i.to_bytes(8, 'big'): the pair of the prefix and the ordinal
BlobKey(sha256, i) == <<sha256, i>>

PrefKeys(db, sha256) == {k \in DOMAIN db : k[1] = sha256}
\* ScanRest that steps over the key next to the cursor
ScanRestSkip(db, sha256, last) == {k[2] : k \in {x \in PrefKeys(db, sha256) : x[2] > last + 1}}

\* ordinals of the keys with the prefix that a scan positioned after
\* ordinal `last` still has to visit (ascending key order)
ScanRest(db, sha256, last) == {k[2] : k \in {x \in PrefKeys(db, sha256) : x[2] > last}}
SetMin(S) == CHOOSE x \in S : \A y \in S : x <= y

\* ------------------------------------------------ SpooledTemporaryFile
FdNew == [data |-> <<>>, pos |-> 0, closed |-> FALSE]
\* write at the position; a closed file takes nothing (the call raises
\* ValueError, as seek and read do)
FdWrite(fd, byts) ==
    IF fd.closed THEN fd
    ELSE [fd EXCEPT !.data = SubSeq(fd.data, 1, fd.pos) \o byts
                              \o SubSeq(fd.data, fd.pos + Len(byts) + 1, Len(fd.data)),
                   !.pos = fd.pos + Len(byts)]
FdReadByts(fd, n) == SubSeq(fd.data, fd.pos + 1, Min(fd.pos + n, Len(fd.data)))
FdReadAdv(fd, n) == [fd EXCEPT !.pos = Min(fd.pos + n, Len(fd.data))]
\* FdSeek0 that leaves the position where it is
FdSeekKeep(fd) == fd

FdSeek0(fd) == [fd EXCEPT !.pos = 0]
FdClose(fd) == [fd EXCEPT !.closed = TRUE]

\* --------------------------------------------------------------- UpLoad
UpLoadNew == [fd |-> FdNew, size |-> 0, sha256 |-> Sha256New, isfini |-> FALSE]

\* UpReset that keeps the running hash
UpResetKeepHash(u) == [u EXCEPT !.fd = FdNew, !.size = 0]

\* UpLoad._reset: either branch leaves an open, empty file at position 0
UpReset(u) == [u EXCEPT !.fd = FdNew, !.size = 0, !.sha256 = Sha256New]

UpWrite(u, byts) ==
    [u EXCEPT !.size = u.size + Len(byts),
              !.sha256 = Sha256Update(u.sha256, byts),
              !.fd = FdWrite(u.fd, byts)]

\* Base.fini of the session: isfini is set and _uploadFini closes the file
UpFini(u) == [u EXCEPT !.isfini = TRUE, !.fd = FdClose(u.fd)]

VARIABLES
    sizes,        \* axonslab db 'sizes': sha256 -> 8 bytes
    blobs,        \* blobslab db 'blobs': <<sha256, i>> -> chunk bytes
    axonseqn,     \* SlabSeqn: entry at offset i is axonseqn[i + 1]
    axonhist,     \* Hist: <<tick, item>> in key order
    axonmetrics,  \* hive dict: 'file:count' and 'size:bytes'
    maxbytes,     \* conf 'max:bytes' or NoLimit
    maxcount,     \* conf 'max:count' or NoLimit
    hashlocks,    \* registry: sha256 -> item id
    items,        \* item id -> [refs, locked, waiters] of a [0, asyncio.Lock()]
    pc,           \* where each task is suspended
    op,           \* the call the task runs
    arg,          \* sha256 the call works on
    up,           \* the task's UpLoad session
    item,         \* the registry item the task took in holdHashLock
    idx,          \* enumerate index / scan cursor of the task's loop
    lsize,        \* local `size` of _saveFileGenr
    rsize,        \* local `rsize` of UpLoad.save
    got,          \* chunks a get has yielded so far
    result,       \* what the call returned or raised
    now,          \* the last reading of the wall clock (s_common.now)
    inp,          \* the bytes the task's put was called with
    calls,        \* calls each task has started so far
    base,         \* metrics when the tasks were started
    feed,         \* the reader of Axon.hashes: its call and what it received
    http          \* the HTTP exchange of the task's wget: the status code, the
                  \* body bytes still to come, the HashSet fed so far

vars == <<sizes, blobs, axonseqn, axonhist, axonmetrics, maxbytes, maxcount,
          hashlocks, items, pc, op, arg, up, item, idx, lsize, rsize, got,
          result, now, inp, calls, base, feed, http>>

store == <<sizes, blobs, axonseqn, axonhist, axonmetrics>>
\* what no call but wget changes: the configuration, the metrics at the
\* start, and the HTTP exchanges
conf == <<maxbytes, maxcount, base, http>>
locks == <<hashlocks, items>>

\* ------------------------------------------------------------- results
NoResult == [kind |-> "none", size |-> 0, sha256 |-> 0]
Returned(size, sha256) == [kind |-> "ok", size |-> size, sha256 |-> sha256]
Raised(exc) == [kind |-> exc, size |-> 0, sha256 |-> 0]
RetBool(b) == [kind |-> IF b THEN "true" ELSE "false", size |-> 0, sha256 |-> 0]
RetInt(n) == [kind |-> "ok", size |-> n, sha256 |-> 0]
\* a list was returned: the list itself is kept in got
RetList == [kind |-> "list", size |-> 0, sha256 |-> 0]
RetNone == [kind |-> "None", size |-> 0, sha256 |-> 0]
\* wget returned {'ok': False, 'mesg': ...}
NotOk == [kind |-> "notok", size |-> 0, sha256 |-> 0]

\* WgetExcept with one handler for everything thrown
WgetExceptAll(exc) == NotOk

\* the except clauses of wget: CancelledError is raised again, any other
\* exception becomes the record with ok False
WgetExcept(exc) == IF exc = "CancelledError" THEN Raised(exc) ELSE NotOk


\* ------------------------------------------------------------- Axon.has
\* HasIn with the test on None turned round
HasInInverted(db, sha256) == SlabGet(db, sha256) = None

HasIn(db, sha256) == SlabGet(db, sha256) # None
has(sha256) == HasIn(sizes, sha256)

\* SizeIn that tests the size for truth instead of the bytes for None
SizeInFalsy(db, sha256) ==
    LET byts == SlabGet(db, sha256)
    IN  IF byts # None /\ FromBytes(byts) # 0 THEN FromBytes(byts) ELSE NoneInt

\* Axon.size: the stored size, or None (NoneInt)
SizeIn(db, sha256) ==
    LET byts == SlabGet(db, sha256)
    IN  IF byts # None THEN FromBytes(byts) ELSE NoneInt
size(sha256) == SizeIn(sizes, sha256)

\* Axon._get run to its end on one state: the chunks with the prefix, by key
RECURSIVE ScanFrom(_, _, _)
ScanFrom(db, sha256, last) ==
    LET rest == ScanRest(db, sha256, last)
    IN  IF rest = {} THEN <<>>
        ELSE <<db[BlobKey(sha256, SetMin(rest))]>> \o ScanFrom(db, sha256, SetMin(rest))

RECURSIVE Concat(_)
Concat(ss) == IF ss = <<>> THEN <<>> ELSE Head(ss) \o Concat(Tail(ss))

\* ---------------------------------------------------------- axonmetrics
\* the hive dict of the metrics: get, and a set that stores the value at once
\* (the counters are updated synchronously inside save and del)
MetricsGet(metrics, name) == metrics[name]
MetricsSet(metrics, name, valu) == [metrics EXCEPT ![name] = valu]

\* ------------------------------------------------------ _reqBelowLimit
\* HitLimit that lets the counters reach the limit before it raises
HitLimitStrict(metrics, mbytes, mcount) ==
    \/ (mbytes # NoLimit /\ mbytes < MetricsGet(metrics, "size:bytes"))
    \/ (mcount # NoLimit /\ mcount < MetricsGet(metrics, "file:count"))

\* the HitLimit it raises, or FALSE when it returns
HitLimit(metrics, mbytes, mcount) ==
    \/ (mbytes # NoLimit /\ mbytes <= MetricsGet(metrics, "size:bytes"))
    \/ (mcount # NoLimit /\ mcount <= MetricsGet(metrics, "file:count"))

\* --------------------------------------------------------- holdHashLock
NewItem == [refs |-> 0, locked |-> FALSE, waiters |-> <<>>]
FreshId(it) == SetMin({i \in 1..(Cardinality(DOMAIN it) + 1) : i \notin DOMAIN it})

\* items some reference still reaches: the registry or a task's local `item`
Gc(it, hl, itf) ==
    [i \in {x \in DOMAIN it : \/ \E d \in DOMAIN hl : hl[d] = x
                              \/ \E t \in Tasks : itf[t] = x} |-> it[i]]

\* HoldEnter that never finds the registered item and always makes a new one
HoldEnterFresh(hl, it, sha256, t) ==
    LET id == FreshId(it)
    IN  [hl |-> SlabPut(hl, sha256, id),
         id |-> id,
         acquired |-> TRUE,
         it |-> SlabPut(it, id, [refs |-> 1, locked |-> TRUE, waiters |-> <<>>])]

\* up to the acquire: look the item up or create it, count the reference,
\* take the asyncio.Lock when it is free and nobody queues, else queue
HoldEnter(hl, it, sha256, t) ==
    LET id == IF sha256 \in DOMAIN hl THEN hl[sha256] ELSE FreshId(it)
        it0 == IF sha256 \in DOMAIN hl THEN it ELSE SlabPut(it, id, NewItem)
        free == ~it0[id].locked /\ it0[id].waiters = <<>>
    IN  [hl |-> SlabPut(hl, sha256, id),
         id |-> id,
         acquired |-> free,
         it |-> [it0 EXCEPT ![id].refs = @ + 1,
                            ![id].locked = IF free THEN TRUE ELSE @,
                            ![id].waiters = IF free THEN @ ELSE Append(@, t)]]

\* the body left by return: the lock is released, then the code after the
\* yield runs
HoldExit(hl, it, id, sha256) ==
    LET it1 == [it EXCEPT ![id].locked = FALSE, ![id].refs = @ - 1]
    IN  [hl |-> IF it1[id].refs = 0 THEN SlabDel(hl, sha256) ELSE hl,
         it |-> it1]

\* HoldRaise that leaves the asyncio.Lock locked
HoldRaiseKeep(hl, it, id) == [hl |-> hl, it |-> it]

\* the body left by an exception thrown in at the yield: `async with
\* item[1]` releases the lock and the exception leaves the generator
HoldRaise(hl, it, id) ==
    [hl |-> hl, it |-> [it EXCEPT ![id].locked = FALSE]]

\* CancelledError while queued in Lock.acquire
HoldCancelWait(hl, it, id, t) ==
    [hl |-> hl,
     it |-> [it EXCEPT ![id].waiters = SelectSeq(@, LAMBDA w : w # t)]]

\* a queued task is granted the lock: it is released and t is first in line
Granted(it, id, t) ==
    /\ ~it[id].locked
    /\ it[id].waiters # <<>>
    /\ Head(it[id].waiters) = t

HoldGrant(it, id) ==
    [it EXCEPT ![id].locked = TRUE, ![id].waiters = Tail(@)]

\* axonmetrics.setdefault('size:bytes', 0); setdefault('file:count', 0)
MetricsNew == [name \in {"file:count", "size:bytes"} |-> 0]

\* synapse.lib.hashset.HashSet: its sha256 is a hashlib.sha256 fed by update
HashSetNew == Sha256New
HashSetUpdate(h, byts) == Sha256Update(h, byts)

\* no HTTP exchange yet
HttpNew == [code |-> 0, left |-> <<>>, hash |-> HashSetNew,
            upfd |-> FALSE, finished |-> FALSE]

\* the reader of Axon.hashes before its first call: no call runs (cur), it
\* resumes at offset 0 (next) and has received nothing (recv)
FeedNew == [offs |-> 0, cur |-> NoneInt, stop |-> 0, out |-> <<>>,
            next |-> 0, recv |-> {}]

\* ---------------------------------------------------------------- Init
TypeOK ==
    /\ DOMAIN sizes \subseteq Digests
    /\ axonmetrics \in [{"file:count", "size:bytes"} -> Int]
    /\ pc \in [Tasks -> {"idle", "acquire", "saving", "deleting", "getting", "done",
                         "dels:acquire", "dels:deleting",
                         "wget:request", "wget:body", "http:body"}]
    /\ calls \in [Tasks -> 0..Max(Max(MaxUpOps, MaxGetOps), Max(MaxOps, MaxSeqOps))]
    /\ now \in 0..MaxTime

InitTasks ==
    /\ pc = [t \in Tasks |-> "idle"]
    /\ op = [t \in Tasks |-> "none"]
    /\ arg = [t \in Tasks |-> 0]
    /\ up = [t \in Tasks |-> UpLoadNew]
    /\ item = [t \in Tasks |-> NoItem]
    /\ idx = [t \in Tasks |-> 0]
    /\ lsize = [t \in Tasks |-> 0]
    /\ rsize = [t \in Tasks |-> 0]
    /\ got = [t \in Tasks |-> <<>>]
    /\ result = [t \in Tasks |-> NoResult]
    /\ inp = [t \in Tasks |-> <<>>]
    /\ calls = [t \in Tasks |-> 0]

Init ==
    /\ sizes = <<>>
    /\ blobs = <<>>
    /\ axonseqn = <<>>
    /\ axonhist = <<>>
    /\ axonmetrics = MetricsNew
    /\ maxbytes \in Limits
    /\ maxcount \in Limits
    /\ hashlocks = <<>>
    /\ items = <<>>
    /\ now = 0
    /\ base = axonmetrics
    /\ feed = FeedNew
    /\ http = [t \in Tasks |-> HttpNew]
    /\ InitTasks


\* -------------------------------------------------- pieces of the commit
\* SlabSeqn.add and Hist.add of _addSyncItem
SeqnAdd(seqn, sitem) == Append(seqn, sitem)

\* Hist.add: the table is keyed by the time and a disambiguator, so the
\* entry goes behind the entries that are not later than it
HistAdd(hist, tick, sitem) ==
    LET n == Cardinality({i \in 1..Len(hist) : hist[i][1] <= tick})
    IN  SubSeq(hist, 1, n) \o <<<<tick, sitem>>>> \o SubSeq(hist, n + 1, Len(hist))

\* Hist.carve: the range scan of the table from tick up to tock
Carve(hist, tick, tock) ==
    SelectSeq(hist, LAMBDA e : e[1] >= tick /\ (tock = NoneInt \/ e[1] < tock))

\* AddSyncItem that leaves the history out
AddSyncItemSeqnOnly(hist, seqn, tick, sitem) ==
    [hist |-> hist, seqn |-> SeqnAdd(seqn, sitem)]

\* AddSyncItem that leaves the sequence out
AddSyncItemHistOnly(hist, seqn, tick, sitem) ==
    [hist |-> HistAdd(hist, tick, sitem), seqn |-> seqn]

\* AddSyncItem that writes over the newest sequence entry
AddSyncItemReplace(hist, seqn, tick, sitem) ==
    [hist |-> HistAdd(hist, tick, sitem),
     seqn |-> IF seqn = <<>> THEN <<sitem>> ELSE [seqn EXCEPT ![Len(seqn)] = sitem]]

\* Axon._addSyncItem: axonhist.add(item), axonseqn.add(item)
AddSyncItem(hist, seqn, tick, sitem) ==
    [hist |-> HistAdd(hist, tick, sitem), seqn |-> SeqnAdd(seqn, sitem)]

\* axonmetrics.set('file:count', get + 1); axonmetrics.set('size:bytes', get + size)
MetricsInc(metrics, sz) ==
    LET m1 == MetricsSet(metrics, "file:count", MetricsGet(metrics, "file:count") + 1)
    IN  MetricsSet(m1, "size:bytes", MetricsGet(m1, "size:bytes") + sz)

\* MetricsDec that forgets size:bytes
MetricsDecCount(metrics, sz) ==
    MetricsSet(metrics, "file:count", MetricsGet(metrics, "file:count") - 1)

\* axonmetrics.set('file:count', get - 1); axonmetrics.set('size:bytes', get - size)
MetricsDec(metrics, sz) ==
    LET m1 == MetricsSet(metrics, "file:count", MetricsGet(metrics, "file:count") - 1)
    IN  MetricsSet(m1, "size:bytes", MetricsGet(m1, "size:bytes") - sz)

\* -------------------------------------------------------- task epilogue
\* the call of task t is over: its locals die, the registry is as (hl, it)
Done(t, u, res, hl, it) ==
    /\ pc' = [pc EXCEPT ![t] = "done"]
    /\ up' = [up EXCEPT ![t] = u]
    /\ result' = [result EXCEPT ![t] = res]
    /\ item' = [item EXCEPT ![t] = NoItem]
    /\ idx' = [idx EXCEPT ![t] = 0]
    /\ lsize' = [lsize EXCEPT ![t] = 0]
    /\ hashlocks' = hl
    /\ items' = Gc(it, hl, [item EXCEPT ![t] = NoItem])

\* the call of task t is suspended at `where`, inside holdHashLock
Suspend(t, where, u, id, i, sz, hl, it) ==
    /\ pc' = [pc EXCEPT ![t] = where]
    /\ up' = [up EXCEPT ![t] = u]
    /\ item' = [item EXCEPT ![t] = id]
    /\ idx' = [idx EXCEPT ![t] = i]
    /\ lsize' = [lsize EXCEPT ![t] = sz]
    /\ hashlocks' = hl
    /\ items' = Gc(it, hl, [item EXCEPT ![t] = id])
    /\ UNCHANGED result

\* Axon.put leaves `async with await self.upload() as fd`: the session is fini'd
PutExit(u) == UpFini(u)

\* Axon.save has raised / has returned `sz` to its caller: UpLoad.save inside
\* Axon.put or called on a client's session (which resets the session and
\* returns rsize and the digest), or a caller of Axon.save itself
\* Axon.put and Axon.wget hold the session in `async with`, and wget
\* returns the size with the digest of its HashSet, and handles exceptions
RaiseOut(t, u) == IF op'[t] \in {"put", "wget", "http"} THEN PutExit(u) ELSE u
ReturnOut(t, u) ==
    CASE op'[t] \in {"put", "wget", "http"} -> PutExit(UpReset(u))
      [] op'[t] = "upsave" -> UpReset(u)
      [] OTHER -> u
SaveRetn(t, rs, sz, sha256) ==
    CASE op'[t] \in {"put", "upsave", "http"} -> Returned(rs, sha256)
      [] op'[t] = "wget" -> Returned(rs, http[t].hash)
      [] OTHER -> RetInt(sz)
SaveRaised(t, exc) == IF op'[t] = "wget" THEN WgetExcept(exc) ELSE Raised(exc)

\* ------------------------------------------------------------ Axon.save
\* SaveIter that adds each chunk to size:bytes when it writes it
SaveIterPerChunk(t, sha256, u, rs, i, sz, hl, it, id, tick) ==
    IF u.isfini
    THEN /\ UNCHANGED <<store, now>>
         /\ LET ex == HoldRaise(hl, it, id)
            IN  Done(t, RaiseOut(t, u), Raised("IsFini"), ex.hl, ex.it)
    ELSE LET byts == FdReadByts(u.fd, CHUNK_SIZE)
             u2 == [u EXCEPT !.fd = FdReadAdv(@, CHUNK_SIZE)]
         IN  IF byts = <<>>
             THEN /\ now' = tick
                  /\ LET sync == AddSyncItem(axonhist, axonseqn, tick, <<sha256, sz>>)
                     IN  axonhist' = sync.hist /\ axonseqn' = sync.seqn
                  /\ axonmetrics' = MetricsInc(axonmetrics, 0)
                  /\ sizes' = SlabPut(sizes, sha256, ToBytes8(sz))
                  /\ UNCHANGED blobs
                  /\ LET ex == HoldExit(hl, it, id, sha256)
                     IN  Done(t, ReturnOut(t, u2), SaveRetn(t, rs, sz, sha256), ex.hl, ex.it)
             ELSE /\ blobs' = SlabPut(blobs, BlobKey(sha256, i), byts)
                  /\ axonmetrics' = MetricsSet(axonmetrics, "size:bytes",
                                        MetricsGet(axonmetrics, "size:bytes") + Len(byts))
                  /\ UNCHANGED <<sizes, axonseqn, axonhist, now>>
                  /\ Suspend(t, "saving", u2, id, i + 1, sz + Len(byts), hl, it)

\* one turn of the loop of _saveFileGenr over UpLoad.save.genr, entered with
\* index i and running size sz; the loop's end runs the rest of Axon.save
SaveIter(t, sha256, u, rs, i, sz, hl, it, id, tick) ==
    IF u.isfini
    THEN \* genr raises IsFini
         /\ UNCHANGED <<store, now>>
         /\ LET ex == HoldRaise(hl, it, id)
            IN  Done(t, RaiseOut(t, u), Raised("IsFini"), ex.hl, ex.it)
    ELSE LET byts == FdReadByts(u.fd, CHUNK_SIZE)
             u2 == [u EXCEPT !.fd = FdReadAdv(@, CHUNK_SIZE)]
         IN  IF byts = <<>>
             THEN \* genr returns: _addSyncItem, metrics, sizes put, return
                  /\ now' = tick
                  /\ LET sync == AddSyncItem(axonhist, axonseqn, tick, <<sha256, sz>>)
                     IN  axonhist' = sync.hist /\ axonseqn' = sync.seqn
                  /\ axonmetrics' = MetricsInc(axonmetrics, sz)
                  /\ sizes' = SlabPut(sizes, sha256, ToBytes8(sz))
                  /\ UNCHANGED blobs
                  /\ LET ex == HoldExit(hl, it, id, sha256)
                     IN  Done(t, ReturnOut(t, u2), SaveRetn(t, rs, sz, sha256), ex.hl, ex.it)
             ELSE \* blobslab.put, then asyncio.sleep(0)
                  /\ blobs' = SlabPut(blobs, BlobKey(sha256, i), byts)
                  /\ UNCHANGED <<sizes, axonseqn, axonhist, axonmetrics, now>>
                  /\ Suspend(t, "saving", u2, id, i + 1, sz + Len(byts), hl, it)

\* SaveBody that does not look the digest up again under the lock
SaveBodyNoRecheck(t, sha256, u, rs, hl, it, id, tick) ==
    SaveIter(t, sha256, [u EXCEPT !.fd = FdSeek0(@)], rs, 0, 0, hl, it, id, tick)

\* the body of `async with self.holdHashLock(sha256)` in Axon.save
SaveBody(t, sha256, u, rs, hl, it, id, tick) ==
    IF SlabGet(sizes, sha256) # None
    THEN \* return int.from_bytes(byts, 'big')
         /\ UNCHANGED <<store, now>>
         /\ LET ex == HoldExit(hl, it, id, sha256)
            IN  Done(t, ReturnOut(t, u),
                     SaveRetn(t, rs, FromBytes(SlabGet(sizes, sha256)), sha256),
                     ex.hl, ex.it)
    ELSE IF u.fd.closed
    THEN \* genr: self.fd.seek(0) raises ValueError on the closed file
         /\ UNCHANGED <<store, now>>
         /\ LET ex == HoldRaise(hl, it, id)
            IN  Done(t, RaiseOut(t, u), Raised("ValueError"), ex.hl, ex.it)
    ELSE SaveIter(t, sha256, [u EXCEPT !.fd = FdSeek0(@)], rs, 0, 0, hl, it, id, tick)

\* ------------------------------------------------------------ Axon.del_
\* one turn of the loop of _delBlobByts, the scan standing after key `last`
DelIter(t, sha256, last, hl, it, id) ==
    LET rest == ScanRest(blobs, sha256, last)
    IN  IF rest = {}
        THEN \* return True
             /\ UNCHANGED blobs
             /\ LET ex == HoldExit(hl, it, id, sha256)
                IN  Done(t, up[t], RetBool(TRUE), ex.hl, ex.it)
        ELSE \* blobslab.delete, then asyncio.sleep(0)
             /\ blobs' = SlabDel(blobs, BlobKey(sha256, SetMin(rest)))
             /\ Suspend(t, "deleting", up[t], id, SetMin(rest), 0, hl, it)

\* DelBody that reads the size-index entry with get instead of pop
DelBodyKeep(t, sha256, hl, it, id) ==
    LET byts == SlabGet(sizes, sha256)
    IN  /\ UNCHANGED <<sizes, axonseqn, axonhist>>
        /\ IF byts = None \/ byts = <<>>
           THEN /\ UNCHANGED <<blobs, axonmetrics>>
                /\ LET ex == HoldExit(hl, it, id, sha256)
                   IN  Done(t, up[t], RetBool(FALSE), ex.hl, ex.it)
           ELSE /\ axonmetrics' = MetricsDec(axonmetrics, FromBytes(byts))
                /\ DelIter(t, sha256, -1, hl, it, id)

\* DelBody that returns True without the sweep of _delBlobByts
DelBodyNoSweep(t, sha256, hl, it, id) ==
    LET byts == SlabGet(sizes, sha256)
    IN  /\ sizes' = SlabDel(sizes, sha256)
        /\ UNCHANGED <<axonseqn, axonhist, blobs>>
        /\ axonmetrics' = IF byts = None \/ byts = <<>> THEN axonmetrics
                          ELSE MetricsDec(axonmetrics, FromBytes(byts))
        /\ LET ex == HoldExit(hl, it, id, sha256)
           IN  Done(t, up[t], RetBool(~(byts = None \/ byts = <<>>)), ex.hl, ex.it)

\* DelBody that tests the size for truth instead of the bytes
DelBodyFalsy(t, sha256, hl, it, id) ==
    LET byts == SlabGet(sizes, sha256)
    IN  /\ sizes' = SlabDel(sizes, sha256)
        /\ UNCHANGED <<axonseqn, axonhist>>
        /\ IF byts = None \/ FromBytes(byts) = 0
           THEN /\ UNCHANGED <<blobs, axonmetrics>>
                /\ LET ex == HoldExit(hl, it, id, sha256)
                   IN  Done(t, up[t], RetBool(FALSE), ex.hl, ex.it)
           ELSE /\ axonmetrics' = MetricsDec(axonmetrics, FromBytes(byts))
                /\ DelIter(t, sha256, -1, hl, it, id)

\* DelBody without the test `if not byts`: an absent entry counts as size 0
DelBodyNoTest(t, sha256, hl, it, id) ==
    LET byts == SlabGet(sizes, sha256)
    IN  /\ sizes' = SlabDel(sizes, sha256)
        /\ UNCHANGED <<axonseqn, axonhist>>
        /\ axonmetrics' = MetricsDec(axonmetrics, IF byts = None THEN 0 ELSE FromBytes(byts))
        /\ DelIter(t, sha256, -1, hl, it, id)

\* DelBody that leaves the counters for after the sweep when the sweep
\* suspends
DelBodyCountLater(t, sha256, hl, it, id) ==
    LET byts == SlabGet(sizes, sha256)
    IN  /\ sizes' = SlabDel(sizes, sha256)
        /\ UNCHANGED <<axonseqn, axonhist>>
        /\ IF byts = None \/ byts = <<>>
           THEN /\ UNCHANGED <<blobs, axonmetrics>>
                /\ LET ex == HoldExit(hl, it, id, sha256)
                   IN  Done(t, up[t], RetBool(FALSE), ex.hl, ex.it)
           ELSE /\ axonmetrics' = IF ScanRest(blobs, sha256, -1) = {}
                                  THEN MetricsDec(axonmetrics, FromBytes(byts))
                                  ELSE axonmetrics
                /\ DelIter(t, sha256, -1, hl, it, id)

\* DelBody that takes the entries of the digest out of the history as well
DelBodyForget(t, sha256, hl, it, id) ==
    LET byts == SlabGet(sizes, sha256)
    IN  /\ sizes' = SlabDel(sizes, sha256)
        /\ axonhist' = SelectSeq(axonhist, LAMBDA e : e[2][1] # sha256)
        /\ UNCHANGED axonseqn
        /\ IF byts = None \/ byts = <<>>
           THEN /\ UNCHANGED <<blobs, axonmetrics>>
                /\ LET ex == HoldExit(hl, it, id, sha256)
                   IN  Done(t, up[t], RetBool(FALSE), ex.hl, ex.it)
           ELSE /\ axonmetrics' = MetricsDec(axonmetrics, FromBytes(byts))
                /\ DelIter(t, sha256, -1, hl, it, id)

\* the body of `async with self.holdHashLock(sha256)` in Axon.del_
DelBody(t, sha256, hl, it, id) ==
    LET byts == SlabGet(sizes, sha256)
    IN  /\ sizes' = SlabDel(sizes, sha256)
        /\ UNCHANGED <<axonseqn, axonhist>>
        /\ IF byts = None \/ byts = <<>>
           THEN \* return False
                /\ UNCHANGED <<blobs, axonmetrics>>
                /\ LET ex == HoldExit(hl, it, id, sha256)
                   IN  Done(t, up[t], RetBool(FALSE), ex.hl, ex.it)
           ELSE /\ axonmetrics' = MetricsDec(axonmetrics, FromBytes(byts))
                /\ DelIter(t, sha256, -1, hl, it, id)

\* ------------------------------------------------------------- Axon.get
\* one chunk of the scan of _get, the scan standing after key `last`
GetIter(t, sha256, last, acc) ==
    LET rest == ScanRest(blobs, sha256, last)
    IN  /\ UNCHANGED <<up, item, lsize, hashlocks, items>>
        /\ IF rest = {}
           THEN /\ pc' = [pc EXCEPT ![t] = "done"]
                /\ idx' = [idx EXCEPT ![t] = 0]
                /\ got' = [got EXCEPT ![t] = acc]
                /\ result' = [result EXCEPT ![t] = Returned(Len(Concat(acc)), sha256)]
           ELSE /\ pc' = [pc EXCEPT ![t] = "getting"]
                /\ idx' = [idx EXCEPT ![t] = SetMin(rest)]
                /\ got' = [got EXCEPT ![t] = Append(acc, blobs[BlobKey(sha256, SetMin(rest))])]
                /\ UNCHANGED result

\* ----------------------------------------------------------- Axon.wants
\* Wants that keeps the digests the Axon has
RECURSIVE WantsHave(_, _)
WantsHave(db, sha256s) ==
    IF sha256s = <<>> THEN <<>>
    ELSE (IF HasIn(db, Head(sha256s)) THEN <<Head(sha256s)>> ELSE <<>>)
             \o WantsHave(db, Tail(sha256s))

\* [s for s in sha256s if not await self.has(s)]
RECURSIVE Wants(_, _)
Wants(db, sha256s) ==
    IF sha256s = <<>> THEN <<>>
    ELSE (IF ~HasIn(db, Head(sha256s)) THEN <<Head(sha256s)>> ELSE <<>>)
             \o Wants(db, Tail(sha256s))

\* ------------------------------------------------------------ Axon.dels
\* DelsRetn that puts the newest result in front
DelsRetnFront(acc, b) == <<b>> \o acc

\* [await self.del_(s) for s in sha256s]: the list with one more result
DelsRetn(acc, b) == Append(acc, b)

\* where a task that runs Axon.dels stands when it has to wait or is through:
\* the results so far (acc), the registry, its item, the tables, the cursor
DelsAt(where, acc, hl, it, id, szdb, metrics, bldb, last) ==
    [pc |-> where, acc |-> acc, hl |-> hl, it |-> it, id |-> id,
     sizes |-> szdb, metrics |-> metrics, blobs |-> bldb, last |-> last]

\* Axon.dels from the call of del_ for the element behind the results acc,
\* run until the task has to wait or the list is through
RECURSIVE DelsRun(_, _, _, _, _, _, _, _)

\* _delBlobByts of that element, the scan standing after key `last`
DelsSweep(t, sha256s, acc, hl, it, id, szdb, metrics, bldb, last) ==
    LET sha256 == sha256s[Len(acc) + 1]
        rest == ScanRest(bldb, sha256, last)
    IN  IF rest = {}
        THEN \* del_ returns True
             LET ex == HoldExit(hl, it, id, sha256)
             IN  DelsRun(t, sha256s, DelsRetn(acc, TRUE), ex.hl, ex.it,
                         szdb, metrics, bldb)
        ELSE \* blobslab.delete, then asyncio.sleep(0)
             DelsAt("dels:deleting", acc, hl, it, id, szdb, metrics,
                    SlabDel(bldb, BlobKey(sha256, SetMin(rest))), SetMin(rest))

\* the body of `async with self.holdHashLock(sha256)` of that del_
DelsBody(t, sha256s, acc, hl, it, id, szdb, metrics, bldb) ==
    LET sha256 == sha256s[Len(acc) + 1]
        byts == SlabGet(szdb, sha256)
    IN  IF byts = None \/ byts = <<>>
        THEN \* del_ returns False
             LET ex == HoldExit(hl, it, id, sha256)
             IN  DelsRun(t, sha256s, DelsRetn(acc, FALSE), ex.hl, ex.it,
                         SlabDel(szdb, sha256), metrics, bldb)
        ELSE DelsSweep(t, sha256s, acc, hl, it, id, SlabDel(szdb, sha256),
                       MetricsDec(metrics, FromBytes(byts)), bldb, -1)

DelsRun(t, sha256s, acc, hl, it, szdb, metrics, bldb) ==
    IF Len(acc) = Len(sha256s)
    THEN DelsAt("done", acc, hl, it, NoItem, szdb, metrics, bldb, 0)
    ELSE LET h == HoldEnter(hl, it, sha256s[Len(acc) + 1], t)
         IN  IF h.acquired
             THEN DelsBody(t, sha256s, acc, h.hl, h.it, h.id, szdb, metrics, bldb)
             ELSE DelsAt("dels:acquire", acc, h.hl, h.it, h.id, szdb, metrics, bldb, 0)

\* the state after the task has run to r
DelsApply(t, sha256s, r) ==
    /\ sizes' = r.sizes
    /\ axonmetrics' = r.metrics
    /\ blobs' = r.blobs
    /\ hashlocks' = r.hl
    /\ items' = Gc(r.it, r.hl, [item EXCEPT ![t] = r.id])
    /\ pc' = [pc EXCEPT ![t] = r.pc]
    /\ item' = [item EXCEPT ![t] = r.id]
    /\ idx' = [idx EXCEPT ![t] = r.last]
    /\ got' = [got EXCEPT ![t] = r.acc]
    /\ arg' = [arg EXCEPT ![t] = IF Len(r.acc) < Len(sha256s)
                                  THEN sha256s[Len(r.acc) + 1] ELSE 0]
    /\ result' = [result EXCEPT ![t] = IF r.pc = "done" THEN RetList ELSE NoResult]
    /\ UNCHANGED <<axonseqn, axonhist, now, up, lsize, conf, feed>>

\* --------------------------------------------------------- Axon.history
\* History that leaves tock out
HistoryNoTock(hist, tick, tock) == Carve(hist, tick, NoneInt)

\* Axon.history(tick, tock) drained: every item of axonhist.carve is yielded
History(hist, tick, tock) == Carve(hist, tick, tock)

\* ---------------------------------------------------------- Axon.hashes
\* HashesIter that yields the entries whose blob is gone
HashesIterInverted(offs, cur, stop, out) ==
    \/ /\ cur < Len(axonseqn)
       /\ LET sitem == axonseqn[cur + 1]
              yield == ~HasIn(sizes, sitem[1])
          IN  feed' = [feed EXCEPT
                  !.offs = offs, !.cur = cur + 1, !.stop = stop,
                  !.out = IF yield THEN Append(out, <<cur, sitem>>) ELSE out,
                  !.next = IF yield THEN Max(@, cur + 1) ELSE @,
                  !.recv = IF yield THEN @ \cup {cur} ELSE @]
    \/ /\ cur >= stop
       /\ feed' = [feed EXCEPT !.offs = offs, !.cur = NoneInt, !.stop = stop,
                                !.out = out]

\* HashesIter that yields every entry, stored or not
HashesIterAll(offs, cur, stop, out) ==
    \/ /\ cur < Len(axonseqn)
       /\ LET sitem == axonseqn[cur + 1]
          IN  feed' = [feed EXCEPT
                  !.offs = offs, !.cur = cur + 1, !.stop = stop,
                  !.out = Append(out, <<cur, sitem>>),
                  !.next = Max(@, cur + 1),
                  !.recv = @ \cup {cur}]
    \/ /\ cur >= stop
       /\ feed' = [feed EXCEPT !.offs = offs, !.cur = NoneInt, !.stop = stop,
                                !.out = out]

\* HashesIter that yields every entry as offset 0
HashesIterFlat(offs, cur, stop, out) ==
    \/ /\ cur < Len(axonseqn)
       /\ LET sitem == axonseqn[cur + 1]
              yield == HasIn(sizes, sitem[1])
          IN  feed' = [feed EXCEPT
                  !.offs = offs, !.cur = cur + 1, !.stop = stop,
                  !.out = IF yield THEN Append(out, <<0, sitem>>) ELSE out,
                  !.next = IF yield THEN Max(@, cur + 1) ELSE @,
                  !.recv = IF yield THEN @ \cup {cur} ELSE @]
    \/ /\ cur >= stop
       /\ feed' = [feed EXCEPT !.offs = offs, !.cur = NoneInt, !.stop = stop,
                                !.out = out]

\* HashesIter that opens the sequence at its first entry, whatever offs is
HashesIterBelow(offs, cur, stop, out) ==
    LET c == IF out = <<>> /\ cur = offs THEN 0 ELSE cur
    IN  \/ /\ c < Len(axonseqn)
           /\ LET sitem == axonseqn[c + 1]
                  yield == HasIn(sizes, sitem[1])
              IN  feed' = [feed EXCEPT
                      !.offs = offs, !.cur = c + 1, !.stop = stop,
                      !.out = IF yield THEN Append(out, <<c, sitem>>) ELSE out,
                      !.next = IF yield THEN Max(@, c + 1) ELSE @,
                      !.recv = IF yield THEN @ \cup {c} ELSE @]
        \/ /\ c >= stop
           /\ feed' = [feed EXCEPT !.offs = offs, !.cur = NoneInt, !.stop = stop,
                                    !.out = out]

\* one turn of the loop of Axon.hashes, axonseqn.iter standing at offset cur:
\* the entry is yielded when its blob is in the size-index, then
\* asyncio.sleep(0); or the iteration is over, which it can be once it has
\* passed the entries that were there when it was opened (stop).  The
\* reader keeps the offset to resume from and the offsets it has received.
HashesIter(offs, cur, stop, out) ==
    \/ /\ cur < Len(axonseqn)
       /\ LET sitem == axonseqn[cur + 1]
              yield == HasIn(sizes, sitem[1])
          IN  feed' = [feed EXCEPT
                  !.offs = offs, !.cur = cur + 1, !.stop = stop,
                  !.out = IF yield THEN Append(out, <<cur, sitem>>) ELSE out,
                  !.next = IF yield THEN Max(@, cur + 1) ELSE @,
                  !.recv = IF yield THEN @ \cup {cur} ELSE @]
    \/ /\ cur >= stop
       /\ feed' = [feed EXCEPT !.offs = offs, !.cur = NoneInt, !.stop = stop,
                                !.out = out]

\* ------------------------------------------------------------- actions
\* calls started so far, by all tasks
RECURSIVE SumTo(_, _)
SumTo(f, n) == IF n = 0 THEN 0 ELSE f[n] + SumTo(f, n - 1)
nops == SumTo(calls, NumTasks)

\* a task takes its next call; the tasks are interchangeable, so they are
\* numbered in the order of their first call
CanStart(t) ==
    /\ pc[t] \in {"idle", "done"}
    /\ nops < MaxOps
    /\ \A s \in 1..(t - 1) : pc[s] # "idle"

Begin(t, name, byts, sha256, rs) ==
    /\ op' = [op EXCEPT ![t] = name]
    /\ inp' = [inp EXCEPT ![t] = byts]
    /\ arg' = [arg EXCEPT ![t] = sha256]
    /\ rsize' = [rsize EXCEPT ![t] = rs]
    /\ calls' = [calls EXCEPT ![t] = @ + 1]
    /\ UNCHANGED <<conf, feed>>

\* Axon.save(sha256, genr) up to its first suspension, genr reading from u
AxonSave(t, sha256, u, rs, tick) ==
    IF HitLimit(axonmetrics, maxbytes, maxcount)
    THEN /\ UNCHANGED <<store, now>>
         /\ Done(t, RaiseOut(t, u), SaveRaised(t, "HitLimit"), hashlocks, items)
    ELSE LET h == HoldEnter(hashlocks, items, sha256, t)
         IN  IF h.acquired
             THEN SaveBody(t, sha256, u, rs, h.hl, h.it, h.id, tick)
             ELSE /\ UNCHANGED <<store, now>>
                  /\ Suspend(t, "acquire", u, h.id, 0, 0, h.hl, h.it)

\* Axon.put(byts) up to its first suspension: upload(), write, UpLoad.save
PutCall(t, byts, tick) ==
    /\ pc[t] \in {"idle", "done"}
    /\ LET u == UpWrite(UpLoadNew, byts)
           sha256 == u.sha256
           rs == u.size
       IN  /\ Begin(t, "put", byts, sha256, rs)
           /\ got' = [got EXCEPT ![t] = <<>>]
           /\ IF has(sha256)
              THEN /\ UNCHANGED <<store, now>>
                   /\ Done(t, PutExit(UpReset(u)), Returned(rs, sha256), hashlocks, items)
              ELSE AxonSave(t, sha256, u, rs, tick)

\* Axon.save(sha256, genr) called by a client itself, up to its first
\* suspension: sha256 is the digest of byts and genr yields byts in chunks
\* of CHUNK_SIZE
SaveCall(t, byts, tick) ==
    /\ pc[t] \in {"idle", "done"}
    /\ LET u == UpWrite(UpLoadNew, byts)
       IN  /\ Begin(t, "save", byts, Sha256(byts), Len(byts))
           /\ got' = [got EXCEPT ![t] = <<>>]
           /\ AxonSave(t, Sha256(byts), u, Len(byts), tick)

\* Axon.del_(sha256) up to its first suspension
DelCall(t, sha256) ==
    /\ pc[t] \in {"idle", "done"}
    /\ Begin(t, "del", <<>>, sha256, 0)
    /\ UNCHANGED now
    /\ got' = [got EXCEPT ![t] = <<>>]
    /\ LET h == HoldEnter(hashlocks, items, sha256, t)
       IN  IF h.acquired
           THEN DelBody(t, sha256, h.hl, h.it, h.id)
           ELSE /\ UNCHANGED store
                /\ Suspend(t, "acquire", up[t], h.id, 0, 0, h.hl, h.it)

\* the calls as the concurrent tasks make them
Put(t, byts, tick) == CanStart(t) /\ PutCall(t, byts, tick)
Save(t, byts, tick) == CanStart(t) /\ SaveCall(t, byts, tick)
Del(t, sha256) == CanStart(t) /\ DelCall(t, sha256)

\* the bytes given to write on the session of task t since its last
\* successful save
Written(t) == IF op[t] = "upsave" /\ result[t].kind = "ok" THEN <<>> ELSE inp[t]

\* UpLoad.write(byts) on the session of task t
WriteCall(t, byts) ==
    /\ pc[t] \in {"idle", "done"}
    /\ Begin(t, "write", Written(t) \o byts, arg[t], 0)
    /\ got' = [got EXCEPT ![t] = <<>>]
    /\ UNCHANGED <<store, now>>
    /\ Done(t, UpWrite(up[t], byts),
            IF up[t].fd.closed THEN Raised("ValueError") ELSE RetNone,
            hashlocks, items)

\* UpLoad.save() on the session of task t, up to its first suspension
UpSaveCall(t, tick) ==
    /\ pc[t] \in {"idle", "done"}
    /\ LET u == up[t]
           sha256 == u.sha256
           rs == u.size
       IN  /\ Begin(t, "upsave", Written(t), sha256, rs)
           /\ got' = [got EXCEPT ![t] = <<>>]
           /\ IF has(sha256)
              THEN /\ UNCHANGED <<store, now>>
                   /\ Done(t, UpReset(u), Returned(rs, sha256), hashlocks, items)
              ELSE AxonSave(t, sha256, u, rs, tick)

\* the session of task t is closed (Base.fini), whatever its task is doing
UpFiniCall(t) ==
    /\ ~up[t].isfini
    /\ up' = [up EXCEPT ![t] = UpFini(@)]
    /\ UNCHANGED <<store, conf, locks, feed, now, pc, op, arg, item, idx, lsize,
                   rsize, got, result, inp, calls>>

\* Axon.wants(sha256s): it runs to its end without a suspension
WantsCall(t, sha256s) ==
    /\ pc[t] \in {"idle", "done"}
    /\ Begin(t, "wants", sha256s, 0, 0)
    /\ got' = [got EXCEPT ![t] = Wants(sizes, sha256s)]
    /\ UNCHANGED <<store, now>>
    /\ Done(t, up[t], RetList, hashlocks, items)

\* Axon.dels(sha256s) up to its first suspension
DelsCall(t, sha256s) ==
    /\ pc[t] \in {"idle", "done"}
    /\ op' = [op EXCEPT ![t] = "dels"]
    /\ inp' = [inp EXCEPT ![t] = sha256s]
    /\ rsize' = [rsize EXCEPT ![t] = 0]
    /\ calls' = [calls EXCEPT ![t] = @ + 1]
    /\ DelsApply(t, sha256s,
                 DelsRun(t, sha256s, <<>>, hashlocks, items, sizes, axonmetrics, blobs))

\* Axon.dels resumes after asyncio.sleep(0) of _delBlobByts
DelsStep(t) ==
    /\ pc[t] = "dels:deleting"
    /\ UNCHANGED <<op, inp, rsize, calls>>
    /\ DelsApply(t, inp[t],
                 DelsSweep(t, inp[t], got[t], hashlocks, items, item[t],
                           sizes, axonmetrics, blobs, idx[t]))

\* Axon.dels is handed the asyncio.Lock it waited for
DelsGranted(t) ==
    /\ pc[t] = "dels:acquire"
    /\ Granted(items, item[t], t)
    /\ UNCHANGED <<op, inp, rsize, calls>>
    /\ DelsApply(t, inp[t],
                 DelsBody(t, inp[t], got[t], hashlocks, HoldGrant(items, item[t]),
                          item[t], sizes, axonmetrics, blobs))

\* Axon.get(sha256) up to its first yield
GetCall(t, sha256) ==
    /\ pc[t] \in {"idle", "done"}
    /\ Begin(t, "get", <<>>, sha256, 0)
    /\ UNCHANGED <<store, now>>
    /\ IF ~has(sha256)
       THEN /\ got' = [got EXCEPT ![t] = <<>>]
            /\ Done(t, up[t], Raised("NoSuchFile"), hashlocks, items)
       ELSE GetIter(t, sha256, -1, <<>>)

Get(t, sha256) == CanStart(t) /\ GetCall(t, sha256)

\* the consumer of Axon.get asks for the next chunk
GetStep(t) ==
    /\ pc[t] = "getting"
    /\ GetIter(t, arg[t], idx[t], got[t])
    /\ UNCHANGED <<store, op, arg, rsize, inp, calls, now, conf, feed>>

\* unchanged by a reader of the indices
tasks == <<pc, op, arg, up, item, idx, lsize, rsize, got, result, inp, calls>>

\* Axon.hashes(offs) up to its first yield or asyncio.sleep(0)
Hashes(offs) ==
    /\ feed.cur = NoneInt
    /\ HashesIter(offs, offs, Len(axonseqn), <<>>)
    /\ UNCHANGED <<store, conf, locks, tasks, now>>

\* the reader of Axon.hashes asks for the next item
HashesStep ==
    /\ feed.cur # NoneInt
    /\ HashesIter(feed.offs, feed.cur, feed.stop, feed.out)
    /\ UNCHANGED <<store, conf, locks, tasks, now>>

\* the asyncio.Lock is handed to the task first in line
LockGranted(t, tick) ==
    /\ pc[t] = "acquire"
    /\ Granted(items, item[t], t)
    /\ UNCHANGED <<op, arg, rsize, got, inp, calls, conf, feed>>
    /\ IF op[t] \in {"put", "save", "upsave", "wget", "http"}
       THEN SaveBody(t, arg[t], up[t], rsize[t], hashlocks,
                     HoldGrant(items, item[t]), item[t], tick)
       ELSE /\ UNCHANGED now
            /\ DelBody(t, arg[t], hashlocks, HoldGrant(items, item[t]), item[t])

\* Axon.save resumes after asyncio.sleep(0) of _saveFileGenr
SaveStep(t, tick) ==
    /\ pc[t] = "saving"
    /\ UNCHANGED <<op, arg, rsize, got, inp, calls, conf, feed>>
    /\ SaveIter(t, arg[t], up[t], rsize[t], idx[t], lsize[t], hashlocks, items,
                item[t], tick)

\* Axon.del_ resumes after asyncio.sleep(0) of _delBlobByts
DelStep(t) ==
    /\ pc[t] = "deleting"
    /\ UNCHANGED <<op, arg, rsize, got, inp, calls, now, conf, feed>>
    /\ UNCHANGED <<sizes, axonseqn, axonhist, axonmetrics>>
    /\ DelIter(t, arg[t], idx[t], hashlocks, items, item[t])

\* the task is cancelled where it is suspended: CancelledError is thrown in
Cancel(t) ==
    /\ pc[t] \in {"acquire", "saving", "deleting"}
    /\ UNCHANGED <<store, op, arg, rsize, got, inp, calls, now, conf, feed>>
    /\ LET ex == IF pc[t] = "acquire"
                 THEN HoldCancelWait(hashlocks, items, item[t], t)
                 ELSE HoldRaise(hashlocks, items, item[t])
       IN  Done(t, RaiseOut(t, up[t]), SaveRaised(t, "CancelledError"), ex.hl, ex.it)

\* what the wall clock (s_common.now) can read: it can step back
Ticks == 0..MaxTime

Next ==
    \/ \E t \in Tasks, byts \in Contents, tick \in Ticks : Put(t, byts, tick)
    \/ \E t \in Tasks, sha256 \in Digests : Del(t, sha256)
    \/ \E t \in Tasks, tick \in Ticks : LockGranted(t, tick)
    \/ \E t \in Tasks, tick \in Ticks : SaveStep(t, tick)
    \/ \E t \in Tasks : DelStep(t)
    \/ \E t \in Tasks : Cancel(t)

Spec == Init /\ [][Next]_vars

\* the same with clients that call Axon.save themselves
NextSave ==
    \/ Next
    \/ \E t \in Tasks, byts \in Contents, tick \in Ticks : Save(t, byts, tick)

SpecSave == Init /\ [][NextSave]_vars

\* the same with clients that call Axon.wants and Axon.dels with lists
RECURSIVE SeqsTo(_, _)
SeqsTo(S, n) ==
    IF n = 0 THEN {<<>>}
    ELSE SeqsTo(S, n - 1) \cup {Append(q, x) : q \in SeqsTo(S, n - 1), x \in S}
Lists == SeqsTo(Digests, MaxList)

NextList ==
    \/ Next
    \/ \E t \in Tasks, sha256s \in Lists : CanStart(t) /\ WantsCall(t, sha256s)
    \/ \E t \in Tasks, sha256s \in Lists : CanStart(t) /\ DelsCall(t, sha256s)
    \/ \E t \in Tasks : DelsStep(t)
    \/ \E t \in Tasks : DelsGranted(t)

SpecList == Init /\ [][NextList]_vars

\* clients that hold an UpLoad session each and use it for several blobs in a
\* row: they write a content in pieces, save, and close the session when
\* they like; a task can be cancelled while its save is suspended
UpStart(t) ==
    /\ nops < MaxUpOps
    /\ \A s \in 1..(t - 1) : pc[s] # "idle"

\* what a client streams into a session: a content, or a content and one
\* more byte written after a save of the content has failed
Streams == {Pattern(n) : n \in 0..(MaxLen + 1)}

\* the next piece of a stream that begins with what the session was given
Pieces(t) ==
    {SubSeq(c, Len(Written(t)) + 1, Len(c)) :
        c \in {x \in Streams : /\ Len(x) > Len(Written(t))
                               /\ SubSeq(x, 1, Len(Written(t))) = Written(t)}}

NextUp ==
    \/ \E t \in Tasks : \E byts \in Pieces(t) : UpStart(t) /\ WriteCall(t, byts)
    \/ \E t \in Tasks, tick \in Ticks : UpStart(t) /\ UpSaveCall(t, tick)
    \/ \E t \in Tasks : UpFiniCall(t)
    \/ \E t \in Tasks, tick \in Ticks : LockGranted(t, tick)
    \/ \E t \in Tasks, tick \in Ticks : SaveStep(t, tick)
    \/ \E t \in Tasks : Cancel(t)

SpecUp == Init /\ [][NextUp]_vars

\* ----------------------------------------------------------------- wget
\* the status codes a server answers with
Codes == {200, 404}

\* Axon.wget(url) up to its first suspension, the request on the network;
\* byts is the body the server is going to send
WgetCall(t, byts) ==
    /\ pc[t] \in {"idle", "done"}
    /\ op' = [op EXCEPT ![t] = "wget"]
    /\ inp' = [inp EXCEPT ![t] = byts]
    /\ arg' = [arg EXCEPT ![t] = Sha256New]
    /\ rsize' = [rsize EXCEPT ![t] = 0]
    /\ calls' = [calls EXCEPT ![t] = @ + 1]
    /\ got' = [got EXCEPT ![t] = <<>>]
    /\ http' = [http EXCEPT ![t] = [HttpNew EXCEPT !.left = byts]]
    /\ Suspend(t, "wget:request", up[t], NoItem, 0, 0, hashlocks, items)
    /\ UNCHANGED <<store, now, maxbytes, maxcount, base, feed>>

\* the response arrives with its status: wget builds the record, makes the
\* HashSet, opens the upload session and waits for the body
WgetResponse(t, code) ==
    /\ pc[t] = "wget:request"
    /\ http' = [http EXCEPT ![t].code = code]
    /\ Suspend(t, "wget:body", UpLoadNew, NoItem, 0, 0, hashlocks, items)
    /\ UNCHANGED <<store, now, maxbytes, maxcount, base, feed, op, inp, arg,
                   rsize, calls, got>>

\* iter_chunked yields the next n bytes of the body: upload.write and
\* hashset.update
WgetChunk(t, n) ==
    /\ pc[t] = "wget:body"
    /\ n \in 1..Min(CHUNK_SIZE, Len(http[t].left))
    /\ LET left == http[t].left
           byts == SubSeq(left, 1, n)
       IN  /\ http' = [http EXCEPT ![t].left = SubSeq(left, n + 1, Len(left)),
                                   ![t].hash = HashSetUpdate(@, byts)]
           /\ Suspend(t, "wget:body", UpWrite(up[t], byts), NoItem, 0, 0,
                      hashlocks, items)
    /\ UNCHANGED <<store, now, maxbytes, maxcount, base, feed, op, inp, arg,
                   rsize, calls, got>>

\* WgetEof that builds its record without upload.save()
WgetEofNoSave(t, tick) ==
    /\ pc[t] = "wget:body"
    /\ http[t].left = <<>>
    /\ arg' = [arg EXCEPT ![t] = up[t].sha256]
    /\ rsize' = [rsize EXCEPT ![t] = up[t].size]
    /\ UNCHANGED <<op, inp, calls, got, conf, feed, store, now>>
    /\ Done(t, PutExit(UpReset(up[t])), Returned(up[t].size, http[t].hash),
            hashlocks, items)

\* the body is over: upload.save() up to its first suspension, and when it
\* returns at once, the record with the size and the digests of the HashSet
WgetEof(t, tick) ==
    /\ pc[t] = "wget:body"
    /\ http[t].left = <<>>
    /\ LET u == up[t]
           sha256 == u.sha256
           rs == u.size
       IN  /\ arg' = [arg EXCEPT ![t] = sha256]
           /\ rsize' = [rsize EXCEPT ![t] = rs]
           /\ UNCHANGED <<op, inp, calls, got, conf, feed>>
           /\ IF has(sha256)
              THEN /\ UNCHANGED <<store, now>>
                   /\ Done(t, PutExit(UpReset(u)), Returned(rs, http[t].hash),
                           hashlocks, items)
              ELSE AxonSave(t, sha256, u, rs, tick)

\* exception exc reaches wget while it waits for the response or for the
\* body: the session, if one was opened, is left through `async with`
WgetRaise(t, exc) ==
    /\ Done(t, IF pc[t] = "wget:body" THEN PutExit(up[t]) ELSE up[t],
            WgetExcept(exc), hashlocks, items)
    /\ UNCHANGED <<store, now, conf, feed, op, inp, arg, rsize, calls, got>>

\* the transport fails / the task is cancelled
WgetFail(t) ==
    pc[t] \in {"wget:request", "wget:body"} /\ WgetRaise(t, "ClientError")
WgetCancel(t) ==
    pc[t] \in {"wget:request", "wget:body"} /\ WgetRaise(t, "CancelledError")

\* concurrent tasks that fetch urls; a task can be cancelled at every wait
NextWget ==
    \/ \E t \in Tasks, byts \in Contents : CanStart(t) /\ WgetCall(t, byts)
    \/ \E t \in Tasks, code \in Codes : WgetResponse(t, code)
    \/ \E t \in Tasks, n \in 1..CHUNK_SIZE : WgetChunk(t, n)
    \/ \E t \in Tasks, tick \in Ticks : WgetEof(t, tick)
    \/ \E t \in Tasks : WgetFail(t)
    \/ \E t \in Tasks : WgetCancel(t)
    \/ \E t \in Tasks, tick \in Ticks : LockGranted(t, tick)
    \/ \E t \in Tasks, tick \in Ticks : SaveStep(t, tick)
    \/ \E t \in Tasks : Cancel(t)

SpecWget == Init /\ [][NextWget]_vars

\* ----------------------------------------------------- AxonHttpUploadV1
\* the handler answered 403 (AuthDeny) and nothing else was called
RetDenied == [kind |-> "AuthDeny", size |-> 0, sha256 |-> 0]
\* the connection was closed before the request was over
RetClosed == [kind |-> "closed", size |-> 0, sha256 |-> 0]

\* AxonHttpUploadV1.prepare for a request with body byts whose caller has the
\* permission (allow) or not: a denied request is finished (on_finish finds
\* upfd None), and then, as prepare does not return there, the upload
\* session and the HashSet are made all the same
HttpPrepare(t, allow, byts) ==
    /\ pc[t] \in {"idle", "done"}
    /\ op' = [op EXCEPT ![t] = "http"]
    /\ inp' = [inp EXCEPT ![t] = byts]
    /\ arg' = [arg EXCEPT ![t] = Sha256New]
    /\ rsize' = [rsize EXCEPT ![t] = 0]
    /\ calls' = [calls EXCEPT ![t] = @ + 1]
    /\ got' = [got EXCEPT ![t] = <<>>]
    /\ http' = [http EXCEPT ![t] = [HttpNew EXCEPT !.code = IF allow THEN 0 ELSE 403,
                                                   !.left = byts,
                                                   !.upfd = TRUE,
                                                   !.finished = ~allow]]
    /\ Suspend(t, "http:body", UpLoadNew, NoItem, 0, 0, hashlocks, items)
    /\ UNCHANGED <<store, now, maxbytes, maxcount, base, feed>>

\* data_received(chunk) with the next n bytes of the body: upfd.write,
\* hashset.update, asyncio.sleep(0); the server may hand the body of a
\* request that prepare has finished to the handler as well
HttpData(t, n) ==
    /\ pc[t] = "http:body"
    /\ n \in 1..Min(CHUNK_SIZE, Len(http[t].left))
    /\ LET left == http[t].left
           byts == SubSeq(left, 1, n)
       IN  /\ http' = [http EXCEPT ![t].left = SubSeq(left, n + 1, Len(left)),
                                   ![t].hash = HashSetUpdate(@, byts)]
           /\ Suspend(t, "http:body", UpWrite(up[t], byts), NoItem, 0, 0,
                      hashlocks, items)
    /\ UNCHANGED <<store, now, maxbytes, maxcount, base, feed, op, inp, arg,
                   rsize, calls, got>>

\* post() / put() after all data was read, for a request that was not
\* finished: _save up to the first suspension of upfd.save(); the response
\* finishes the request and on_finish closes the session
HttpPost(t, tick) ==
    /\ pc[t] = "http:body"
    /\ http[t].left = <<>>
    /\ ~http[t].finished
    /\ LET u == up[t]
           sha256 == u.sha256
           rs == u.size
       IN  /\ arg' = [arg EXCEPT ![t] = sha256]
           /\ rsize' = [rsize EXCEPT ![t] = rs]
           /\ UNCHANGED <<op, inp, calls, got, conf, feed>>
           /\ IF has(sha256)
              THEN /\ UNCHANGED <<store, now>>
                   /\ Done(t, PutExit(UpReset(u)), Returned(rs, sha256),
                           hashlocks, items)
              ELSE AxonSave(t, sha256, u, rs, tick)

\* a request that prepare has finished is over: no method of the handler
\* runs any more (on_finish ran inside prepare, before the session was made)
HttpEnd(t) ==
    /\ pc[t] = "http:body"
    /\ http[t].finished
    /\ Done(t, up[t], RetDenied, hashlocks, items)
    /\ UNCHANGED <<store, now, conf, feed, op, inp, arg, rsize, calls, got>>

\* the connection closes while the body is read: on_connection_close calls
\* on_finish, which closes the session
HttpClose(t) ==
    /\ pc[t] = "http:body"
    /\ Done(t, PutExit(up[t]), RetClosed, hashlocks, items)
    /\ UNCHANGED <<store, now, conf, feed, op, inp, arg, rsize, calls, got>>

\* concurrent upload requests, allowed and denied
NextHttp ==
    \/ \E t \in Tasks, allow \in BOOLEAN, byts \in Contents :
           CanStart(t) /\ HttpPrepare(t, allow, byts)
    \/ \E t \in Tasks, n \in 1..CHUNK_SIZE : HttpData(t, n)
    \/ \E t \in Tasks, tick \in Ticks : HttpPost(t, tick)
    \/ \E t \in Tasks : HttpEnd(t)
    \/ \E t \in Tasks : HttpClose(t)
    \/ \E t \in Tasks, tick \in Ticks : LockGranted(t, tick)
    \/ \E t \in Tasks, tick \in Ticks : SaveStep(t, tick)
    \/ \E t \in Tasks : Cancel(t)

SpecHttp == Init /\ [][NextHttp]_vars

\* one client that makes its calls one after the other (task 1, the other
\* tasks stay idle), and a reader that calls Axon.hashes with any offset
\* while the client's calls run
SeqStart == calls[1] < MaxSeqOps
Offsets == 0..MaxSeqOps

NextHashes ==
    \/ \E byts \in Contents, tick \in Ticks : SeqStart /\ PutCall(1, byts, tick)
    \/ \E byts \in Contents, tick \in Ticks : SeqStart /\ SaveCall(1, byts, tick)
    \/ \E sha256 \in Digests : SeqStart /\ DelCall(1, sha256)
    \/ \E tick \in Ticks : SaveStep(1, tick)
    \/ DelStep(1)
    \/ \E offs \in Offsets : Hashes(offs)
    \/ HashesStep

SpecHashes == Init /\ [][NextHashes]_vars

\* one client that makes its calls one after the other, and a reader that
\* calls hashes(0) between the client's calls: neither runs while the other
\* is in a call
NextQuiet ==
    \/ \E byts \in Contents, tick \in Ticks :
           SeqStart /\ feed.cur = NoneInt /\ PutCall(1, byts, tick)
    \/ \E byts \in Contents, tick \in Ticks :
           SeqStart /\ feed.cur = NoneInt /\ SaveCall(1, byts, tick)
    \/ \E sha256 \in Digests : SeqStart /\ feed.cur = NoneInt /\ DelCall(1, sha256)
    \/ \E tick \in Ticks : SaveStep(1, tick)
    \/ DelStep(1)
    \/ pc[1] \in {"idle", "done"} /\ Hashes(0)
    \/ HashesStep

SpecQuiet == Init /\ [][NextQuiet]_vars

\* the same with a replica: it calls Axon.hashes again and again, each time
\* from the largest offset it has seen + 1
NextFeed ==
    \/ Next
    \/ Hashes(feed.next)
    \/ HashesStep

SpecFeed == Init /\ [][NextFeed]_vars

\* the event loop runs every task that is ready: a task resumed by
\* asyncio.sleep(0) or handed the lock is run after finitely many others
Fair ==
    \A t \in Tasks :
        /\ WF_vars(\E tick \in Ticks : LockGranted(t, tick))
        /\ WF_vars(\E tick \in Ticks : SaveStep(t, tick))
        /\ WF_vars(DelStep(t))

SpecLive == Spec /\ Fair

\* the replica under the event loop's scheduling: it keeps calling and
\* keeps asking for the next item
SpecFeedLive ==
    SpecFeed /\ Fair /\ WF_vars(Hashes(feed.next)) /\ WF_vars(HashesStep)

\* the same with readers: tasks also call Axon.get
NextGet ==
    \/ Next
    \/ \E t \in Tasks, sha256 \in Digests : Get(t, sha256)
    \/ \E t \in Tasks : GetStep(t)

SpecGet == Init /\ [][NextGet]_vars


\* readers and writers that make up to MaxGetOps calls between them, so that
\* a blob can be stored, read and deleted
GetStart(t) ==
    /\ nops < MaxGetOps
    /\ \A s \in 1..(t - 1) : pc[s] # "idle"

NextRead ==
    \/ \E t \in Tasks, byts \in Contents, tick \in Ticks :
           GetStart(t) /\ PutCall(t, byts, tick)
    \/ \E t \in Tasks, sha256 \in Digests : GetStart(t) /\ DelCall(t, sha256)
    \/ \E t \in Tasks, sha256 \in Digests : GetStart(t) /\ GetCall(t, sha256)
    \/ \E t \in Tasks : GetStep(t)
    \/ \E t \in Tasks, tick \in Ticks : LockGranted(t, tick)
    \/ \E t \in Tasks, tick \in Ticks : SaveStep(t, tick)
    \/ \E t \in Tasks : DelStep(t)

\* concurrent puts and dels, up to MaxGetOps calls, that can be cancelled
\* wherever they are suspended
NextRedo ==
    \/ \E t \in Tasks, byts \in Contents, tick \in Ticks :
           GetStart(t) /\ PutCall(t, byts, tick)
    \/ \E t \in Tasks, sha256 \in Digests : GetStart(t) /\ DelCall(t, sha256)
    \/ \E t \in Tasks, tick \in Ticks : LockGranted(t, tick)
    \/ \E t \in Tasks, tick \in Ticks : SaveStep(t, tick)
    \/ \E t \in Tasks : DelStep(t)
    \/ \E t \in Tasks : Cancel(t)

SpecRedo == Init /\ [][NextRedo]_vars

SpecRead == Init /\ [][NextRead]_vars

\* concurrent puts of one content and nothing else: no del, no cancellation
PutSame(t, tick) ==
    \E byts \in Contents :
        /\ \A s \in Tasks : calls[s] > 0 => inp[s] = byts
        /\ Put(t, byts, tick)

NextSame ==
    \/ \E t \in Tasks, tick \in Ticks : PutSame(t, tick)
    \/ \E t \in Tasks, tick \in Ticks : LockGranted(t, tick)
    \/ \E t \in Tasks, tick \in Ticks : SaveStep(t, tick)

SpecSame == Init /\ [][NextSame]_vars

\* =====================================================================
\* Properties
\* =====================================================================
\* task t takes a call in this step / its call ends in this step
Started(t) == calls'[t] # calls[t]
Returns(t) == pc'[t] = "done" /\ (pc[t] # "done" \/ Started(t))

\* Axon.get run from start to end with nothing in between: its outcome
GetAll(szdb, bldb, sha256) ==
    IF ~HasIn(szdb, sha256) THEN None ELSE Concat(ScanFrom(bldb, sha256, -1))

\* ceil(n / CHUNK_SIZE)
NumChunks(n) == (n + CHUNK_SIZE - 1) \div CHUNK_SIZE

Ordinals(bldb, sha256) == {k[2] : k \in PrefKeys(bldb, sha256)}

InBody(t) == pc[t] \in {"saving", "deleting"}
Quiet == \A t \in Tasks : pc[t] \in {"idle", "done"}

\* C1 -- round trip: in the state in which put(B) returns (size, digest),
\* size = len(B), digest = SHA-256(B), size(digest) = len(B) and the chunks
\* of get(digest), concatenated in yield order, are B.
RoundTrip ==
    [][\A t \in Tasks :
        (Returns(t) /\ op'[t] = "put" /\ result'[t].kind = "ok") =>
            /\ result'[t].size = Len(inp'[t])
            /\ result'[t].sha256 = Sha256(inp'[t])
            /\ SizeIn(sizes', result'[t].sha256) = Len(inp'[t])
            /\ GetAll(sizes', blobs', result'[t].sha256) = inp'[t]]_vars

\* a put of a blob longer than one chunk has returned and the blob is stored
RoundTripWitness ==
    \E t \in Tasks :
        /\ pc[t] = "done" /\ op[t] = "put" /\ result[t].kind = "ok"
        /\ Len(inp[t]) > CHUNK_SIZE
        /\ GetAll(sizes, blobs, arg[t]) = inp[t]


\* C2 -- size-index / chunk invariant: in every reachable state (a save or a
\* del under way or cancelled included) every size-index entry (D, S) has
\* exactly the chunks D||0 .. D||(ceil(S/C) - 1), and their concatenation has
\* length S and digest D.
ChunkInv ==
    \A d \in DOMAIN sizes :
        LET S == FromBytes(sizes[d])
            B == Concat(ScanFrom(blobs, d, -1))
        IN  /\ Ordinals(blobs, d) = 0..(NumChunks(S) - 1)
            /\ Len(B) = S
            /\ Sha256(B) = d

\* a blob of two chunks is stored although a save or del of its digest was
\* cancelled before
ChunkInvWitness ==
    \E d \in DOMAIN sizes, t \in Tasks :
        /\ FromBytes(sizes[d]) > CHUNK_SIZE
        /\ pc[t] = "done" /\ arg[t] = d /\ result[t].kind = "CancelledError"

\* C3 -- concurrency idempotence: K concurrent put(B) calls on a store below
\* its limits all return (len(B), SHA-256(B)); one of them alone runs the
\* write path (at most one task writes chunks at a time, only before the one
\* commit, and one sequence entry is appended); file:count has risen by 1 and
\* size:bytes by len(B) when they are all done.
SameInv ==
    /\ Cardinality({t \in Tasks : pc[t] = "saving"}) <= 1
    /\ \A t \in Tasks : pc[t] = "saving" => (arg[t] \notin DOMAIN sizes /\ axonseqn = <<>>)
    /\ \A t \in Tasks : pc[t] = "done" =>
          result[t] = Returned(Len(inp[t]), Sha256(inp[t]))
    /\ (Quiet /\ nops >= 2) =>
          /\ Len(axonseqn) = 1
          /\ axonmetrics["file:count"] = base["file:count"] + 1
          /\ axonmetrics["size:bytes"] = base["size:bytes"] + Len(inp[1])
          /\ Ordinals(blobs, arg[1]) = 0..(NumChunks(Len(inp[1])) - 1)

SameStep ==
    blobs' # blobs =>
        /\ axonseqn = <<>>
        /\ \E a \in Tasks :
              /\ pc'[a] = "saving"
              /\ \A s \in Tasks \ {a} : pc[s] # "saving" /\ pc'[s] # "saving"

SameIdempotent == []SameInv /\ [][SameStep]_vars

\* two puts of the same two-chunk content have both returned, one of them
\* after it waited for the hash lock
SameWitness ==
    /\ \A t \in Tasks : pc[t] = "done" /\ calls[t] = 1 /\ result[t].kind = "ok"
    /\ Len(inp[1]) > CHUNK_SIZE
    /\ axonmetrics["file:count"] = 1

\* C4 -- idempotent save: a put of content that is already stored returns
\* (len(B), SHA-256(B)) at once and writes no chunk, size-index entry, counter,
\* sequence or history entry; a put that returns leaves the digest in the
\* size-index, and it changed the store only if the digest was absent, by one
\* size-index entry, file:count + 1 and size:bytes + len(B).
IdempotentSave ==
    [][\A t \in Tasks :
        /\ (Started(t) /\ op'[t] = "put" /\ arg'[t] \in DOMAIN sizes) =>
              /\ Returns(t)
              /\ result'[t] = Returned(Len(inp'[t]), Sha256(inp'[t]))
              /\ UNCHANGED store
        /\ (Returns(t) /\ op'[t] = "put" /\ result'[t].kind = "ok") =>
              /\ arg'[t] \in DOMAIN sizes'
              /\ \/ UNCHANGED store
                 \/ /\ arg'[t] \notin DOMAIN sizes
                    /\ DOMAIN sizes' = DOMAIN sizes \cup {arg'[t]}
                    /\ axonmetrics'["file:count"] = axonmetrics["file:count"] + 1
                    /\ axonmetrics'["size:bytes"] = axonmetrics["size:bytes"] + Len(inp'[t])]_vars

\* the same content was put twice, both calls returned, one blob is counted
IdempotentWitness ==
    /\ \A t \in Tasks : pc[t] = "done" /\ op[t] = "put" /\ result[t].kind = "ok"
    /\ \A t \in Tasks : inp[t] = inp[1] /\ Len(inp[t]) > 0
    /\ axonmetrics["file:count"] = 1
    /\ Len(axonseqn) = 1

\* C5 -- existence authority: has(digest) iff the size-index holds the digest,
\* size(digest) is a value iff has(digest), and a get raises NoSuchFile iff
\* has(digest) is false when the get starts.
ExistAuthority ==
    /\ [](\A d \in Digests :
            /\ has(d) <=> d \in DOMAIN sizes
            /\ size(d) # NoneInt <=> has(d))
    /\ [][\A t \in Tasks :
            (Started(t) /\ op'[t] = "get") =>
                ((pc'[t] = "done" /\ result'[t].kind = "NoSuchFile") <=> ~has(arg'[t]))]_vars

\* a get of the stored empty blob has returned without raising
ExistWitness ==
    \E t \in Tasks :
        /\ pc[t] = "done" /\ op[t] = "get" /\ result[t].kind = "ok"
        /\ arg[t] \in DOMAIN sizes /\ size(arg[t]) = 0

\* C6 -- delete completeness: when del(digest) returns true, has is false, size
\* is None, get raises NoSuchFile and no chunk key has the prefix; and that
\* stays so in every step that is not a step of a save of the digest.
Clean(szdb, bldb, d) ==
    /\ ~HasIn(szdb, d)
    /\ SizeIn(szdb, d) = NoneInt
    /\ GetAll(szdb, bldb, d) = None
    /\ PrefKeys(bldb, d) = {}

SaveActs(d) ==
    \E t \in Tasks :
        /\ op'[t] = "put" /\ arg'[t] = d
        /\ Started(t) \/ pc'[t] # pc[t] \/ idx'[t] # idx[t]

DelComplete ==
    [][\A d \in Digests :
        /\ (\E t \in Tasks : /\ Returns(t) /\ op'[t] = "del" /\ arg'[t] = d
                             /\ result'[t].kind = "true")
              => Clean(sizes', blobs', d)
        /\ (Clean(sizes, blobs, d) /\ ~SaveActs(d)) => Clean(sizes', blobs', d)]_vars

\* a del of a blob of two chunks has returned true and nothing of it is left
DelCompleteWitness ==
    \E t \in Tasks :
        /\ pc[t] = "done" /\ op[t] = "del" /\ result[t].kind = "true"
        /\ \E i \in 1..Len(axonseqn) :
              axonseqn[i][1] = arg[t] /\ axonseqn[i][2] > CHUNK_SIZE
        /\ Clean(sizes, blobs, arg[t])

\* C7 -- metrics consistency: whenever no save or del is under way, file:count
\* is the number of size-index entries and size:bytes the sum of their sizes.
RECURSIVE SumSizes(_)
SumSizes(db) ==
    IF DOMAIN db = {} THEN 0
    ELSE LET d == CHOOSE x \in DOMAIN db : TRUE
         IN  FromBytes(db[d]) + SumSizes(SlabDel(db, d))

MetricsConsistent ==
    Quiet =>
        /\ axonmetrics["file:count"] = Cardinality(DOMAIN sizes)
        /\ axonmetrics["size:bytes"] = SumSizes(sizes)

\* a put and a del of the same non-empty blob both ran to their end
MetricsWitness ==
    /\ Quiet
    /\ \E t \in Tasks : op[t] = "del" /\ result[t].kind = "true"
    /\ Len(axonseqn) = 1 /\ axonseqn[1][2] > 0
    /\ axonmetrics = MetricsNew

\* C8 -- limit enforcement: with max:count = M and M blobs stored, or max:bytes
\* = X and size:bytes >= X, a put of content that is not stored raises HitLimit
\* and leaves counters, size-index, blob table, sequence and history unchanged.
AtLimit ==
    \/ (maxcount # NoLimit /\ Cardinality(DOMAIN sizes) = maxcount)
    \/ (maxbytes # NoLimit /\ axonmetrics["size:bytes"] >= maxbytes)

LimitEnforced ==
    [][\A t \in Tasks :
        (Started(t) /\ op'[t] = "put" /\ ~has(arg'[t]) /\ AtLimit) =>
            /\ Returns(t)
            /\ result'[t] = Raised("HitLimit")
            /\ UNCHANGED store]_vars

\* a put was refused with max:count blobs stored
LimitWitness ==
    \E t \in Tasks :
        /\ pc[t] = "done" /\ op[t] = "put" /\ result[t].kind = "HitLimit"
        /\ ~has(arg[t])
        /\ maxcount = Cardinality(DOMAIN sizes)

\* C9 -- hash-lock mutual exclusion: no two tasks are inside the body of
\* holdHashLock for the same digest, and a task that waits for the lock waits
\* only with tasks of its own digest (the holder and the queue of its item).
HashLockMutex ==
    /\ \A t, s \in Tasks : (t # s /\ InBody(t) /\ InBody(s)) => arg[t] # arg[s]
    /\ \A t \in Tasks : pc[t] = "acquire" =>
          LET q == items[item[t]]
          IN  /\ \E i \in 1..Len(q.waiters) : q.waiters[i] = t
              /\ \A i \in 1..Len(q.waiters) : arg[q.waiters[i]] = arg[t]
              /\ q.locked => \E s \in Tasks : /\ InBody(s) /\ item[s] = item[t]
                                              /\ arg[s] = arg[t]
              /\ \A s \in Tasks : InBody(s) /\ arg[s] # arg[t] => item[s] # item[t]

\* one task is inside the body and another waits for the same digest
MutexWitness ==
    \E t, s \in Tasks :
        /\ t # s /\ InBody(t) /\ pc[s] = "acquire" /\ arg[s] = arg[t]

\* C10 -- registry garbage collection: the registry holds an entry for a
\* digest iff some task holds or waits for that digest's lock, and the entry's
\* refcount is the number of those tasks.
Users(d) == {t \in Tasks : pc[t] \in {"acquire", "saving", "deleting"} /\ arg[t] = d}

RegistryCollected ==
    \A d \in Digests :
        /\ d \in DOMAIN hashlocks <=> Users(d) # {}
        /\ d \in DOMAIN hashlocks => items[hashlocks[d]].refs = Cardinality(Users(d))

\* C11 -- lock release and progress: the lock of a digest is locked only
\* while a task is inside the body of holdHashLock for it (it is released
\* when the body exits by return, by an exception or by cancellation), and
\* under fair scheduling every save or del that waits for the lock or is
\* inside the body comes to its end.
Active(t) == pc[t] \in {"acquire", "saving", "deleting"}

LockProgress ==
    /\ [](\A id \in DOMAIN items :
            items[id].locked => \E t \in Tasks : InBody(t) /\ item[t] = id)
    /\ \A t \in Tasks : Active(t) ~> (pc[t] = "done")

\* a put was cancelled inside the body while another call of the digest
\* waits: the lock is free for the one that waits
ReleaseWitness ==
    \E t, s \in Tasks :
        /\ t # s /\ pc[t] = "acquire" /\ arg[s] = arg[t]
        /\ pc[s] = "done" /\ result[s].kind = "CancelledError"
        /\ ~items[item[t]].locked

\* C12 -- save of an existing digest is a no-op that precedes the capacity
\* check: a call of save for a digest that is in the size-index returns the
\* stored size and changes no chunk, size-index entry, counter, sequence or
\* history entry, also when the counters are at max:bytes or max:count.
SaveExisting ==
    [][\A t \in Tasks :
        (Started(t) /\ op'[t] = "save" /\ arg'[t] \in DOMAIN sizes) =>
            /\ Returns(t)
            /\ result'[t] = RetInt(FromBytes(sizes[arg'[t]]))
            /\ UNCHANGED store]_vars

\* C13 -- atomic visibility: for a digest that has never been deleted, in
\* every reachable state has(digest) is true iff the sequence holds an entry
\* of the digest iff the history holds one (it holds at the start and every
\* step that does not delete the digest keeps it), so no reader sees a
\* save's sequence or history entry while has(digest) is false.
InSeqn(seqn, d) == \E i \in 1..Len(seqn) : seqn[i][1] = d
InHist(hist, d) == \E i \in 1..Len(hist) : hist[i][2][1] = d

Visible(szdb, seqn, hist, d) ==
    /\ d \in DOMAIN szdb <=> InSeqn(seqn, d)
    /\ d \in DOMAIN szdb <=> InHist(hist, d)

AtomicVisible ==
    /\ \A d \in Digests : Visible(sizes, axonseqn, axonhist, d)
    /\ [][\A d \in Digests :
            (/\ Visible(sizes, axonseqn, axonhist, d)
             /\ ~(d \in DOMAIN sizes /\ d \notin DOMAIN sizes'))
                => Visible(sizes', axonseqn', axonhist', d)]_vars

\* a blob is committed and visible in all three while a save of another
\* digest is between two of its chunks
VisibleWitness ==
    \E d \in DOMAIN sizes, t \in Tasks :
        /\ InSeqn(axonseqn, d) /\ InHist(axonhist, d)
        /\ pc[t] = "saving" /\ arg[t] # d

\* C14 -- replication feed completeness: a replica that calls hashes again
\* and again, each time from the largest offset it has seen + 1, receives
\* every committed blob unless the blob is deleted: a digest in the
\* size-index leads to the replica having been yielded the digest's latest
\* sequence entry, or to the digest being deleted.
LastOffs(seqn, d) ==
    CHOOSE o \in 0..(Len(seqn) - 1) :
        /\ seqn[o + 1][1] = d
        /\ \A j \in (o + 1)..(Len(seqn) - 1) : seqn[j + 1][1] # d

FeedComplete ==
    \A d \in Digests :
        (d \in DOMAIN sizes) ~>
            \/ d \notin DOMAIN sizes
            \/ InSeqn(axonseqn, d) /\ LastOffs(axonseqn, d) \in feed.recv

\* the replica received a first blob in one call and a second blob, which
\* was committed later, in a call that resumed at offset 1
FeedWitness ==
    /\ feed.recv = {0, 1} /\ feed.offs = 1
    /\ Len(feed.out) = 1 /\ feed.out[1][1] = 1
    /\ \A i \in 1..2 : axonseqn[i][1] \in DOMAIN sizes

\* C15 -- sequence monotonicity, as the specification states it: the
\* offsets yielded by hashes(0) are strictly increasing and dense from 0
\* (0, 1, 2, ... with no gap).
HashesDense ==
    feed.offs = 0 => \A i \in 1..Len(feed.out) : feed.out[i][1] = i - 1

\* C15 -- sequence monotonicity, amended: the offsets yielded by a call of
\* hashes are strictly increasing; those of hashes(0) are dense from 0 as
\* long as no blob has been deleted (the sequence has as many entries as
\* the size-index).
HashesIncreasing ==
    /\ \A i \in 1..(Len(feed.out) - 1) : feed.out[i][1] < feed.out[i + 1][1]
    /\ (feed.offs = 0 /\ Len(axonseqn) = Cardinality(DOMAIN sizes)) =>
          \A i \in 1..Len(feed.out) : feed.out[i][1] = i - 1

\* a call of hashes(0) has ended after it yielded two entries
HashesWitness ==
    /\ feed.offs = 0 /\ feed.cur = NoneInt
    /\ Len(feed.out) = 2

HashesFilter ==
    /\ [][feed' # feed =>
            LET c == IF feed.cur = NoneInt THEN feed'.offs ELSE feed.cur
                prev == IF feed.cur = NoneInt THEN <<>> ELSE feed.out
            IN  \/ /\ feed'.cur = c + 1
                   /\ c < Len(axonseqn)
                   /\ feed'.out = IF axonseqn[c + 1][1] \in DOMAIN sizes
                                   THEN Append(prev, <<c, axonseqn[c + 1]>>)
                                   ELSE prev
                \/ /\ feed'.cur = NoneInt
                   /\ feed'.out = prev
                   /\ c >= feed'.stop]_vars
    /\ [](\A i \in 1..Len(feed.out) :
            /\ feed.out[i][1] >= feed.offs
            /\ i > 1 => feed.out[i - 1][1] < feed.out[i][1])

\* a call of hashes(0) over two entries has ended: it yielded the first and
\* skipped the second, whose blob had been deleted when it was visited
HashesFilterWitness ==
    /\ feed.offs = 0 /\ feed.cur = NoneInt /\ feed.stop = 2
    /\ feed.out = <<<<0, axonseqn[1]>>>>
    /\ axonseqn[2][1] \notin DOMAIN sizes

\* C18 -- history range query: history(tick, tock) yields exactly the
\* history entries whose timestamp t satisfies tick <= t < tock (t >= tick
\* when tock is absent), each as often as the history holds it, entries
\* that share a timestamp included, in non-decreasing timestamp order.
Times == 0..(MaxTime + 1)
Count(s, e) == Cardinality({i \in 1..Len(s) : s[i] = e})

HistoryRange ==
    \A tick \in Times, tock \in Times \cup {NoneInt} :
        LET out == History(axonhist, tick, tock)
            InRange(e) == e[1] >= tick /\ (tock = NoneInt \/ e[1] < tock)
        IN  /\ \A i \in 1..Len(out) :
                  InRange(out[i]) /\ Count(axonhist, out[i]) > 0
            /\ \A i \in 1..Len(axonhist) :
                  Count(out, axonhist[i]) =
                      IF InRange(axonhist[i]) THEN Count(axonhist, axonhist[i]) ELSE 0
            /\ \A i \in 1..(Len(out) - 1) : out[i][1] <= out[i + 1][1]

\* two blobs were committed, the second at an earlier reading of the clock
\* than the first: history(0, 1) yields the second alone, history(0) both
HistoryWitness ==
    /\ Len(axonhist) = 2 /\ Len(axonseqn) = 2
    /\ axonhist[1][2] = axonseqn[2] /\ axonhist[1][1] < axonhist[2][1]
    /\ History(axonhist, 0, 1) = <<axonhist[1]>>
    /\ Len(History(axonhist, 0, NoneInt)) = 2

\* C19 -- wants filter: a call wants([d1..dn]) returns, without waiting,
\* exactly the digests di of its list that are not in the size index, in the
\* order of the list and as often as the list holds them, and it changes
\* nothing of the store, the lock registry, the sessions or the feed.
Missing(sha256s) == SelectSeq(sha256s, LAMBDA d : d \notin DOMAIN sizes)

WantsFilter ==
    [][\A t \in Tasks :
        (Started(t) /\ op'[t] = "wants") =>
            /\ Returns(t)
            /\ result'[t] = RetList
            /\ got'[t] = Missing(inp'[t])
            /\ UNCHANGED <<store, locks, up, conf, feed, now>>]_vars

\* wants of a list <<a, b, a>> with b stored and a not has returned <<a, a>>
WantsWitness ==
    \E t \in Tasks :
        /\ op[t] = "wants" /\ pc[t] = "done"
        /\ Len(inp[t]) = 3
        /\ inp[t][1] = inp[t][3]
        /\ inp[t][1] \notin DOMAIN sizes
        /\ inp[t][2] \in DOMAIN sizes
        /\ got[t] = <<inp[t][1], inp[t][1]>>

\* C20 -- dels is sequential del: dels([d1..dn]) returns n booleans in the
\* order of the list; a result is only ever added behind the earlier ones,
\* and the result for di is true iff di was in the size index when its turn
\* came, the index being what del(d1..d(i-1)) and the other tasks had left
\* of it. When no other task has made a call, a digest listed twice yields
\* true at most once (true then false when it was stored), and no digest
\* of the list is in the size index when dels returns.
\* the results of del for sha256s[i..j], one after the other, on the set S of
\* the stored digests, and the set they leave
RECURSIVE RefDels(_, _, _, _)
RefDels(S, sha256s, i, j) ==
    IF i > j THEN [res |-> <<>>, left |-> S]
    ELSE LET r == RefDels(S \ {sha256s[i]}, sha256s, i + 1, j)
         IN  [res |-> <<sha256s[i] \in S>> \o r.res, left |-> r.left]

DelsSequential ==
    [][\A t \in Tasks :
        (op'[t] = "dels" /\ (Started(t) \/ pc'[t] # pc[t] \/ idx'[t] # idx[t])) =>
            LET sha256s == inp'[t]
                mid == ~Started(t) /\ pc[t] = "dels:deleting"
                n == IF Started(t) THEN 0 ELSE Len(got[t])
                m == Len(got'[t])
                S == DOMAIN sizes \cup (IF mid THEN {sha256s[n + 1]} ELSE {})
                ref == RefDels(S, sha256s, n + 1, m)
                alone == \A s \in Tasks \ {t} : calls'[s] = 0
                was == DOMAIN sizes' \cup {sha256s[i] : i \in {k \in 1..m : got'[t][k]}}
            IN  /\ n <= m /\ m <= Len(sha256s)
                /\ \A i \in 1..n : got'[t][i] = got[t][i]
                /\ \A i \in (n + 1)..m : got'[t][i] = ref.res[i - n]
                /\ IF pc'[t] = "dels:deleting"
                   THEN /\ sha256s[m + 1] \in ref.left
                        /\ DOMAIN sizes' = ref.left \ {sha256s[m + 1]}
                   ELSE DOMAIN sizes' = ref.left
                /\ pc'[t] \in {"done", "dels:acquire", "dels:deleting"}
                /\ Returns(t) =>
                       /\ m = Len(sha256s)
                       /\ result'[t] = RetList
                /\ (Returns(t) /\ alone) =>
                       /\ got'[t] = RefDels(was, sha256s, 1, m).res
                       /\ \A i \in 1..m : sha256s[i] \notin DOMAIN sizes']_vars

\* dels of a list that names twice a stored blob of more than one chunk has
\* returned true then false, and the blob is gone
DelsWitness ==
    \E t \in Tasks :
        /\ op[t] = "dels" /\ pc[t] = "done"
        /\ Len(inp[t]) = 2 /\ inp[t][1] = inp[t][2]
        /\ got[t] = <<TRUE, FALSE>>
        /\ Len(axonseqn) = 1
        /\ axonseqn[1][1] = inp[t][1]
        /\ axonseqn[1][2] > CHUNK_SIZE
        /\ inp[t][1] \notin DOMAIN sizes

\* C21 -- del of an absent digest: when del(digest) gets to its body (at
\* once, or after it waited for the hash lock) and the digest has no
\* size-index entry, it returns false in that step and leaves the
\* size-index, the counters, the blob table, the sequence and the history
\* as they were; and a del returns false in no other case.
DelRuns(t) ==
    /\ op'[t] = "del"
    /\ \/ Started(t) /\ pc'[t] # "acquire"
       \/ pc[t] = "acquire" /\ pc'[t] # "acquire" /\ result'[t].kind # "CancelledError"

DelAbsent ==
    [][\A t \in Tasks :
        /\ (DelRuns(t) /\ arg'[t] \notin DOMAIN sizes) =>
              /\ Returns(t)
              /\ result'[t] = RetBool(FALSE)
              /\ UNCHANGED store
        /\ (Returns(t) /\ op'[t] = "del" /\ result'[t] = RetBool(FALSE)) =>
              /\ DelRuns(t)
              /\ arg'[t] \notin DOMAIN sizes]_vars

\* a del has returned false for a digest that has no size-index entry but
\* has orphan chunks of a cancelled save, and the chunks are still there
DelAbsentWitness ==
    \E t \in Tasks :
        /\ op[t] = "del" /\ pc[t] = "done" /\ result[t] = RetBool(FALSE)
        /\ arg[t] \notin DOMAIN sizes
        /\ PrefKeys(blobs, arg[t]) # {}

\* C22 -- cancelled save is invisible and repeatable: when a save is
\* cancelled, or its producer raises (the session was closed), while it is
\* suspended at a chunk-yield, the digest has no size-index entry before and
\* after that step; and a later save of that content by a session that is
\* open and holds the content, on a store whose entries match their chunks,
\* fails only by cancellation or at a limit: otherwise it returns
\* (len, digest) and get of the digest then returns the full content,
\* orphan chunks of the earlier save notwithstanding.
SaveFails(t) ==
    /\ pc[t] = "saving"
    /\ pc'[t] = "done"
    /\ result'[t].kind \in {"CancelledError", "IsFini", "ValueError"}

SaveInvisible ==
    \A t \in Tasks :
        (op[t] = "upsave" /\ SaveFails(t)) =>
            /\ arg[t] \notin DOMAIN sizes
            /\ arg[t] \notin DOMAIN sizes'

SaveRepeats ==
    \A t \in Tasks :
        (/\ Returns(t) /\ op'[t] = "upsave"
         /\ ~up[t].isfini /\ up[t].fd.data = inp'[t]
         /\ \A d \in DOMAIN sizes : GetAll(sizes, blobs, d) # None
                                       /\ Sha256(GetAll(sizes, blobs, d)) = d
         /\ result'[t].kind # "CancelledError"
         /\ ~(Started(t) /\ HitLimit(axonmetrics, maxbytes, maxcount))) =>
            /\ result'[t] = Returned(Len(inp'[t]), Sha256(inp'[t]))
            /\ GetAll(sizes', blobs', arg'[t]) = inp'[t]

CancelRepeatable == [][SaveInvisible /\ SaveRepeats]_vars

\* a save of a two-chunk content was cancelled, and a save of the same
\* content has returned since: the content is stored whole
CancelWitness ==
    /\ op[1] = "upsave" /\ pc[1] = "done" /\ result[1].kind = "CancelledError"
    /\ op[2] = "upsave" /\ pc[2] = "done"
    /\ inp[1] = inp[2] /\ Len(inp[2]) > CHUNK_SIZE
    /\ result[2] = Returned(Len(inp[2]), arg[1])
    /\ GetAll(sizes, blobs, arg[1]) = inp[2]

\* C23 -- cancelled save leaves only orphan chunks: every step of a save
\* except the one in which it returns its result leaves the size-index,
\* file:count, size:bytes, the sequence and the history as they are, and
\* writes nothing but chunks under its own digest, which has no size-index
\* entry then; the step in which the save is cancelled or raises changes
\* nothing of the store.  So a save that does not return has added orphan
\* chunks of its digest and nothing else.
SaveTurn(t) ==
    /\ op'[t] \in {"put", "save", "upsave"}
    /\ Started(t) \/ pc'[t] # pc[t] \/ idx'[t] # idx[t]

Commits(t) == pc'[t] = "done" /\ result'[t].kind = "ok"

OnlyOrphans ==
    [][\A t \in Tasks :
        (SaveTurn(t) /\ ~Commits(t)) =>
            /\ UNCHANGED <<sizes, axonmetrics, axonseqn, axonhist>>
            /\ \A k \in DOMAIN blobs : k \in DOMAIN blobs'
            /\ \A k \in DOMAIN blobs' :
                   SlabGet(blobs, k) # blobs'[k] =>
                       k[1] = arg'[t] /\ arg'[t] \notin DOMAIN sizes'
            /\ pc'[t] = "done" => UNCHANGED store]_vars

\* a save was cancelled after it had written a chunk: the chunk is there,
\* the digest has no size-index entry, and the counters, the sequence and
\* the history are as they were at the start
OrphanWitness ==
    \E t \in Tasks :
        /\ op[t] = "upsave" /\ pc[t] = "done" /\ result[t].kind = "CancelledError"
        /\ PrefKeys(blobs, arg[t]) # {}
        /\ sizes = <<>> /\ axonseqn = <<>> /\ axonhist = <<>>
        /\ axonmetrics = MetricsNew

\* C24 -- get is ordered with save and del of the same digest: a get that
\* does not raise NoSuchFile yields the complete content of the blob, all
\* its chunks in order, whatever a concurrent del or save of the digest
\* does; a non-empty blob is never yielded truncated or empty.
GetComplete ==
    [][\A t \in Tasks :
        (Returns(t) /\ op'[t] = "get" /\ result'[t].kind # "NoSuchFile") =>
            Sha256(Concat(got'[t])) = arg'[t]]_vars

\* C25 -- upload session reuse: every save() of a session that returns a
\* result returns the length and the SHA-256 of exactly the bytes given to
\* write since the session's previous successful save (or since it was
\* made), whether it wrote the blob or found it stored; and when it returns,
\* the session's size is 0, its hash state is fresh and its file is empty.
SessionReuse ==
    [][\A t \in Tasks :
        (Returns(t) /\ op'[t] = "upsave" /\ result'[t].kind = "ok") =>
            /\ result'[t] = Returned(Len(inp'[t]), Sha256(inp'[t]))
            /\ up'[t].size = 0
            /\ up'[t].sha256 = Sha256New
            /\ up'[t].fd = FdNew]_vars

\* one session has saved two blobs in a row, the second of them non-empty
SessionWitness ==
    \E t \in Tasks :
        /\ calls[t] = 4 /\ op[t] = "upsave" /\ pc[t] = "done"
        /\ result[t] = Returned(Len(inp[t]), Sha256(inp[t]))
        /\ Len(inp[t]) > 0
        /\ Cardinality(DOMAIN sizes) = 2
        /\ up[t].size = 0

\* C26 -- closed session rejects operations: a write() or save() that ends
\* on a session that is closed ends with an error, leaves the session's
\* state as it was and changes nothing of the store; save() on a closed
\* session never returns a (size, digest) result.
ClosedRejects ==
    [][\A t \in Tasks :
        (Returns(t) /\ op'[t] \in {"write", "upsave"} /\ up[t].isfini) =>
            /\ result'[t].kind \notin {"ok", "None"}
            /\ up'[t] = up[t]
            /\ UNCHANGED store]_vars

\* the same for save() alone: it returns no result on a closed session
ClosedSaveFails ==
    [][\A t \in Tasks :
        (Returns(t) /\ op'[t] = "upsave" /\ up[t].isfini) =>
            result'[t].kind # "ok"]_vars

\* C27 -- bounded limit overshoot: with max:count = M and / or max:bytes = X
\* set, concurrent saves of distinct blobs overshoot the limits by at most
\* one blob in flight: in every reachable state file:count <= M, and
\* size:bytes < X + s, s being the size of the largest blob ever saved.
RECURSIVE MaxSize(_)
MaxSize(seqn) == IF seqn = <<>> THEN 0 ELSE Max(Head(seqn)[2], MaxSize(Tail(seqn)))

LimitOvershoot ==
    /\ maxcount # NoLimit => MetricsGet(axonmetrics, "file:count") <= maxcount
    /\ maxbytes # NoLimit =>
           MetricsGet(axonmetrics, "size:bytes") < maxbytes + MaxSize(axonseqn)

\* the two parts on their own
CountBound == maxcount # NoLimit => MetricsGet(axonmetrics, "file:count") <= maxcount
BytesBound ==
    maxbytes # NoLimit =>
        MetricsGet(axonmetrics, "size:bytes") < maxbytes + MaxSize(axonseqn)

\* C28 -- empty blob: a put of zero bytes on a store below its limits
\* returns (0, SHA-256 of nothing) in the step it is called; then the digest
\* is in the size-index with size 0 (not None), no chunk has its prefix,
\* and file:count has risen by 1 and size:bytes by 0 if the blob was not
\* stored before.  While it is stored, get of the digest ends without
\* raising after zero chunks, and del of the digest returns true.
EmptySha == Sha256(<<>>)

EmptyPut(t) ==
    (/\ Started(t) /\ op'[t] = "put" /\ inp'[t] = <<>>
     /\ ~HitLimit(axonmetrics, maxbytes, maxcount)) =>
        /\ Returns(t)
        /\ result'[t] = Returned(0, EmptySha)
        /\ EmptySha \in DOMAIN sizes'
        /\ FromBytes(sizes'[EmptySha]) = 0
        /\ SizeIn(sizes', EmptySha) # NoneInt
        /\ PrefKeys(blobs', EmptySha) = {}
        /\ EmptySha \notin DOMAIN sizes =>
               axonmetrics' = [axonmetrics EXCEPT !["file:count"] = @ + 1]

EmptyGet(t) ==
    (/\ Started(t) /\ op'[t] = "get" /\ arg'[t] = EmptySha
     /\ EmptySha \in DOMAIN sizes) =>
        /\ Returns(t)
        /\ result'[t].kind = "ok"
        /\ got'[t] = <<>>

EmptyDel(t) ==
    (DelRuns(t) /\ arg'[t] = EmptySha /\ EmptySha \in DOMAIN sizes) =>
        /\ Returns(t)
        /\ result'[t] = RetBool(TRUE)
        /\ EmptySha \notin DOMAIN sizes'
        /\ axonmetrics' = [axonmetrics EXCEPT !["file:count"] = @ - 1]

EmptyBlob == [][\A t \in Tasks : EmptyPut(t) /\ EmptyGet(t) /\ EmptyDel(t)]_vars

\* the empty blob was put, a get of it has ended with no chunk, and a del of
\* it has returned true
EmptyWitness ==
    \E t, r \in Tasks :
        /\ op[t] = "del" /\ pc[t] = "done" /\ arg[t] = EmptySha
        /\ result[t] = RetBool(TRUE)
        /\ op[r] = "get" /\ pc[r] = "done" /\ arg[r] = EmptySha
        /\ result[r].kind = "ok" /\ got[r] = <<>>
        /\ axonseqn = <<<<EmptySha, 0>>>>
        /\ axonmetrics = MetricsNew


\* ---------------------------------------------------------------------
\* C29: whenever wget returns a record with ok true, whatever the status
\* code of the response, the body is stored already: the sha256 of the
\* record is the digest of the body and has() of it is true, size() of it is
\* the size of the record, and a get of it gives the body, byte for byte.
WgetOk(t) == Returns(t) /\ op'[t] = "wget" /\ result'[t].kind = "ok"

WgetStored ==
    [][\A t \in Tasks :
        WgetOk(t) =>
            LET sha256 == result'[t].sha256
            IN  /\ http'[t].code \in Codes
                /\ sha256 = Sha256(inp'[t])
                /\ HasIn(sizes', sha256)
                /\ SizeIn(sizes', sha256) = result'[t].size
                /\ result'[t].size = Len(inp'[t])
                /\ GetAll(sizes', blobs', sha256) = inp'[t]]_vars

\* a wget answered with 404 has returned ok for a body of more than one
\* chunk, and another for a body that was stored before
WgetWitness ==
    \E t, r \in Tasks :
        /\ t # r
        /\ op[t] = "wget" /\ pc[t] = "done" /\ result[t].kind = "ok"
        /\ http[t].code = 404 /\ Len(inp[t]) > CHUNK_SIZE
        /\ op[r] = "wget" /\ pc[r] = "done" /\ result[r].kind = "ok"
        /\ inp[r] = inp[t]
        /\ Len(axonseqn) = 1

\* ---------------------------------------------------------------------
\* C30: a transport failure of wget, before the response or while the body
\* is streamed, makes it return the record with ok false: nothing is raised,
\* and the call has added no blob chunk, no size-index entry and changed no
\* counter; a cancellation of wget, at any of its waits, is raised to the
\* caller as CancelledError and never becomes a record; in both cases the
\* upload session opened for the response is closed.
WgetActs(t) ==
    /\ op'[t] = "wget"
    /\ <<pc[t], up[t], http[t], calls[t]>>' # <<pc[t], up[t], http[t], calls[t]>>

\* the steps of wget before its upload.save leave the store as it is
WgetStreams(t) ==
    (WgetActs(t) /\ pc'[t] \in {"wget:request", "wget:body"}) => UNCHANGED store

SessionClosed(t) == up'[t].isfini /\ up'[t].fd.closed

WgetFails(t) ==
    WgetFail(t) =>
        /\ Returns(t)
        /\ result'[t] = NotOk
        /\ UNCHANGED store
        /\ pc[t] = "wget:body" => SessionClosed(t)

WgetCancelled(t) ==
    (WgetCancel(t) \/ (op[t] = "wget" /\ Cancel(t))) =>
        /\ Returns(t)
        /\ result'[t] = Raised("CancelledError")
        /\ pc[t] # "wget:request" => SessionClosed(t)

WgetFailure ==
    [][\A t \in Tasks : WgetStreams(t) /\ WgetFails(t) /\ WgetCancelled(t)]_vars

\* the transport of a wget has failed in the middle of the body, and
\* another wget was cancelled after its response; the store is empty
WgetFailureWitness ==
    \E t, r \in Tasks :
        /\ op[t] = "wget" /\ pc[t] = "done" /\ result[t] = NotOk
        /\ http[t].left # <<>> /\ http[t].left # inp[t]
        /\ up[t].isfini
        /\ op[r] = "wget" /\ pc[r] = "done"
        /\ result[r] = Raised("CancelledError")
        /\ http[r].code \in Codes /\ up[r].isfini
        /\ axonseqn = <<>> /\ blobs = <<>>

\* ---------------------------------------------------------------------
\* C31: every saving operation raises HitLimit to its caller: when the
\* store is at max:bytes or max:count and the content is not stored yet,
\* put, UpLoad.save and the save at the end of wget raise HitLimit; wget
\* does not turn it into a record with ok false.
SaveBegins(t) ==
    \/ Started(t) /\ op'[t] \in {"put", "upsave"}
    \/ \E tick \in Ticks : WgetEof(t, tick)

LimitSurfaced ==
    [][\A t \in Tasks :
        (/\ SaveBegins(t)
         /\ HitLimit(axonmetrics, maxbytes, maxcount)
         /\ ~HasIn(sizes, arg'[t])) =>
            /\ Returns(t)
            /\ result'[t] = Raised("HitLimit")]_vars

\* ---------------------------------------------------------------------
\* C32: a step that writes a new size-index entry (digest, size) appends
\* exactly one entry to the sequence and adds exactly one entry to the
\* history, both with that (digest, size); every other step (a save or put
\* that finds the digest stored, a save that is cancelled or fails, a chunk
\* write, a delete) leaves the sequence and the history as they are.
HistItems(hist) == [i \in 1..Len(hist) |-> hist[i][2]]
Range(s) == {s[i] : i \in 1..Len(s)}

HistGains(sitem) ==
    /\ Len(axonhist') = Len(axonhist) + 1
    /\ \A e \in Range(HistItems(axonhist')) \cup Range(HistItems(axonhist)) :
          Count(HistItems(axonhist'), e) =
              Count(HistItems(axonhist), e) + (IF e = sitem THEN 1 ELSE 0)

OneEntryPerCommit ==
    [][LET new == DOMAIN sizes' \ DOMAIN sizes
       IN  IF new # {}
           THEN \E d \in new :
                   /\ new = {d}
                   /\ axonseqn' = Append(axonseqn, <<d, SizeIn(sizes', d)>>)
                   /\ HistGains(<<d, SizeIn(sizes', d)>>)
           ELSE axonseqn' = axonseqn /\ axonhist' = axonhist]_vars

\* a put has committed a blob of more than one chunk and a second put of the
\* same content has returned: one entry in the sequence and in the history
PerCommitWitness ==
    \E t, r \in Tasks :
        /\ t # r
        /\ op[t] = "put" /\ pc[t] = "done" /\ result[t].kind = "ok"
        /\ op[r] = "put" /\ pc[r] = "done" /\ result[r].kind = "ok"
        /\ inp[t] = inp[r] /\ Len(inp[t]) > CHUNK_SIZE
        /\ Len(axonseqn) = 1 /\ Len(axonhist) = 1
        /\ axonseqn[1] = <<arg[t], SizeIn(sizes, arg[t])>>
        /\ axonhist[1][2] = axonseqn[1]

\* ---------------------------------------------------------------------
\* C33: the steps of a del of digest d change nothing but d's size-index
\* entry and d's chunks and the counters: the entries and chunks of every
\* other digest, the sequence and the history stay; the step that removes
\* the entry lowers file:count by 1 and size:bytes by the size it held, the
\* other steps leave the counters; when the del returns true, d has no
\* entry and no chunk left, and history from tick 0 still yields the entry
\* of the deleted blob.
DelActs(t) ==
    \/ DelRuns(t)
    \/ /\ op[t] = "del" /\ pc[t] = "deleting"
       /\ <<pc[t], idx[t]>>' # <<pc[t], idx[t]>>

OthersKept(d) ==
    /\ \A e \in (DOMAIN sizes \cup DOMAIN sizes') \ {d} :
          e \in DOMAIN sizes /\ e \in DOMAIN sizes' /\ sizes'[e] = sizes[e]
    /\ \A k \in DOMAIN blobs \cup DOMAIN blobs' :
          k[1] # d => k \in DOMAIN blobs /\ k \in DOMAIN blobs' /\ blobs'[k] = blobs[k]
    /\ DOMAIN blobs' \subseteq DOMAIN blobs

DelFrameStep(t) ==
    DelActs(t) =>
        LET d == arg'[t]
        IN  /\ OthersKept(d)
            /\ axonseqn' = axonseqn /\ axonhist' = axonhist
            /\ IF d \in DOMAIN sizes /\ pc[t] # "deleting"
               THEN /\ d \notin DOMAIN sizes'
                    /\ axonmetrics'["file:count"] = axonmetrics["file:count"] - 1
                    /\ axonmetrics'["size:bytes"] =
                           axonmetrics["size:bytes"] - FromBytes(sizes[d])
               ELSE axonmetrics' = axonmetrics /\ sizes' = sizes
            /\ (Returns(t) /\ result'[t] = RetBool(TRUE)) =>
                  /\ d \notin DOMAIN sizes'
                  /\ \A k \in DOMAIN blobs' : k[1] # d
                  /\ \E i \in 1..Len(History(axonhist', 0, NoneInt)) :
                        History(axonhist', 0, NoneInt)[i][2][1] = d

DelFrame == [][\A t \in Tasks : DelFrameStep(t)]_vars

\* a del has returned true for a blob while another blob is stored with its
\* chunks; the history holds both
DelFrameWitness ==
    \E t \in Tasks, e \in DOMAIN sizes :
        /\ op[t] = "del" /\ pc[t] = "done" /\ result[t] = RetBool(TRUE)
        /\ arg[t] # e /\ arg[t] \notin DOMAIN sizes
        /\ \E k \in DOMAIN blobs : k[1] = e
        /\ InHist(axonhist, arg[t]) /\ InHist(axonhist, e)
        /\ Len(axonseqn) = 2

\* ---------------------------------------------------------------------
\* C34: when a del of digest d is cancelled while its sweep is suspended,
\* that is after it removed the size-index entry, has(d) is false, file:count
\* is the number of size-index entries and size:bytes the sum of their
\* sizes, every entry still has its chunks, and the cancellation itself
\* changes nothing in the store: what is left of d are chunks without an
\* entry. A later save that commits d's content stores a complete blob:
\* the chunks 0..n-1 of the content and nothing else under d.
DelCancelled(t) ==
    /\ op[t] = "del" /\ pc[t] = "deleting"
    /\ pc'[t] = "done" /\ result'[t] = Raised("CancelledError")

CancelledDelStep(t) ==
    DelCancelled(t) =>
        /\ arg[t] \notin DOMAIN sizes'
        /\ sizes' = sizes /\ blobs' = blobs
        /\ axonmetrics'["file:count"] = Cardinality(DOMAIN sizes')
        /\ axonmetrics'["size:bytes"] = SumSizes(sizes')
        /\ \A e \in DOMAIN sizes' :
              /\ Ordinals(blobs', e) = 0..(NumChunks(FromBytes(sizes'[e])) - 1)
              /\ Sha256(Concat(ScanFrom(blobs', e, -1))) = e

SaveCommits(t) ==
    /\ Returns(t) /\ op'[t] = "put" /\ result'[t].kind = "ok"
    /\ arg'[t] \notin DOMAIN sizes

ResaveComplete(t) ==
    SaveCommits(t) =>
        LET d == arg'[t]
        IN  /\ d \in DOMAIN sizes'
            /\ FromBytes(sizes'[d]) = Len(inp'[t])
            /\ Ordinals(blobs', d) = 0..(NumChunks(Len(inp'[t])) - 1)
            /\ Concat(ScanFrom(blobs', d, -1)) = inp'[t]

CancelledDel ==
    [][\A t \in Tasks : CancelledDelStep(t) /\ ResaveComplete(t)]_vars

\* a blob of more than one chunk was put, its del was cancelled during the
\* sweep, and a put of the same content has committed it again
CancelledDelWitness ==
    \E t, r \in Tasks :
        /\ op[t] = "del" /\ pc[t] = "done" /\ result[t] = Raised("CancelledError")
        /\ op[r] = "put" /\ pc[r] = "done" /\ result[r].kind = "ok"
        /\ arg[r] = arg[t] /\ Len(inp[r]) > CHUNK_SIZE
        /\ Len(axonseqn) = 2 /\ axonseqn[1] = axonseqn[2]
        /\ arg[t] \in DOMAIN sizes

\* ---------------------------------------------------------------------
\* C35: hashes(0), called after any sequence of put, save and del calls and
\* run to its end with no call in between, yields exactly one entry for
\* every digest in the size-index and no entry for any other digest.
HashesEnds == feed' # feed /\ feed'.cur = NoneInt /\ feed'.offs = 0

Yielded(out, d) == Cardinality({i \in 1..Len(out) : out[i][2][1] = d})
Appended(seqn, d) == Cardinality({i \in 1..Len(seqn) : seqn[i][1] = d})

HashesOnce ==
    [][HashesEnds =>
          \A d \in Digests :
              Yielded(feed'.out, d) = IF d \in DOMAIN sizes' THEN 1 ELSE 0]_vars

\* C35, amended: such a call yields no entry for a digest that is not in
\* the size-index and, for a digest that is, one entry for every time the
\* digest was committed (at least one), each with its own offset in
\* ascending order: a blob that was deleted and stored again is listed
\* once per commit.
HashesPerCommit ==
    [][HashesEnds =>
          /\ \A d \in Digests :
                /\ Yielded(feed'.out, d) =
                       IF d \in DOMAIN sizes' THEN Appended(axonseqn', d) ELSE 0
                /\ d \in DOMAIN sizes' => Yielded(feed'.out, d) >= 1
          /\ \A i \in 1..Len(feed'.out) :
                /\ feed'.out[i][2] = axonseqn'[feed'.out[i][1] + 1]
                /\ i > 1 => feed'.out[i - 1][1] < feed'.out[i][1]]_vars

\* a blob of more than one chunk was stored, deleted and stored again, and
\* hashes(0) has ended after it yielded both entries of it
HashesPerCommitWitness ==
    /\ pc[1] = "done" /\ feed.cur = NoneInt /\ feed.offs = 0
    /\ Len(axonseqn) = 2
    /\ Len(feed.out) = 2
    /\ feed.out[1][2] = feed.out[2][2]
    /\ feed.out[1][2][1] \in DOMAIN sizes
    /\ Len(inp[1]) > CHUNK_SIZE

\* ---------------------------------------------------------------------
\* C36: a save that fails (HitLimit, or a cancellation while the chunks
\* are written) leaves an open session describing exactly the bytes written
\* since its last reset, so whenever UpLoad.save() of an open session
\* returns, also after a failed save and further writes, the digest it
\* returns is stored with the bytes written: their length is the size
\* returned and the size stored, and the stored chunks hash to the digest.
UpSaveOk(t) ==
    /\ Returns(t) /\ op'[t] = "upsave" /\ result'[t].kind = "ok"
    /\ ~up[t].isfini

SessionIntact ==
    [][\A t \in Tasks :
        UpSaveOk(t) =>
            LET d == result'[t].sha256
            IN  /\ d = Sha256(inp'[t])
                /\ result'[t].size = Len(inp'[t])
                /\ d \in DOMAIN sizes'
                /\ FromBytes(sizes'[d]) = result'[t].size
                /\ Concat(ScanFrom(blobs', d, -1)) = inp'[t]]_vars

\* ---------------------------------------------------------------------
\* C37: a denied upload request has no effect: no step of its handler
\* opens an upload session, buffers request bytes or changes the store;
\* and every session a handler has opened is closed when its request is
\* over.
Denied(t) == op'[t] = "http" /\ http'[t].code = 403

HttpActs(t) ==
    /\ op'[t] = "http"
    /\ <<pc[t], up[t], http[t], calls[t]>>' # <<pc[t], up[t], http[t], calls[t]>>

DeniedStep(t) ==
    (HttpActs(t) /\ Denied(t)) =>
        /\ ~http'[t].upfd
        /\ up'[t].fd.data = <<>> \/ up'[t] = up[t]
        /\ UNCHANGED store

ClosedAtEnd(t) ==
    (HttpActs(t) /\ Returns(t) /\ http'[t].upfd) => SessionClosed(t)

DeniedNoEffect == [][\A t \in Tasks : DeniedStep(t) /\ ClosedAtEnd(t)]_vars

\* every session a handler has opened is closed when its request is over
HttpSessionsClosed == [][\A t \in Tasks : ClosedAtEnd(t)]_vars

\* a denied request stores nothing
DeniedStoresNothing ==
    [][\A t \in Tasks : (HttpActs(t) /\ Denied(t)) => UNCHANGED store]_vars

====
